---- MODULE Spec2Model ----
(***************************************************************************)
(* Waterline query core: forgeStageTwoQuery() (stage 1 query -> stage 2    *)
(* query, in place) and the query integrator integrate() (in-memory join   *)
(* of a row cache along a list of join instructions).                      *)
(*                                                                         *)
(* Spec          the forge: one behaviour per stage 1 query                *)
(* SpecReforge   the forge, called once more on the query it returned      *)
(* SpecIntegrate the integrator: one behaviour per (cache, instructions)   *)
(***************************************************************************)
EXTENDS Integers, Sequences, FiniteSets, TLC

VARIABLES
  query,             \* the query dictionary forgeStageTwoQuery() mutates
  orig,              \* the stage 1 query as it was handed in
  pass,              \* 1 in the first call on the query, 2 in a call on its result
  pc,                \* position of forgeStageTwoQuery()
  err,               \* what forgeStageTwoQuery() threw
  calls,             \* the normalizers invoked so far, in order
  popKeys,           \* _.keys(query.populates), taken when the loop starts
  popIdx,            \* position of the populates loop in popKeys
  production,        \* process.env.NODE_ENV === 'production'
  warned,            \* populate keys console.warn() was called for
  cache,             \* integrate(): the row cache
  cache0,            \* integrate(): the row cache as it was handed in
  joinInstructions,  \* integrate(): the join instructions
  ipc,               \* position of integrate()
  groups,            \* _.groupBy(joinInstructions, 'alias'), in key order
  gi,                \* position of the _.each() over groups
  outcome,           \* how integrate() ended
  results,           \* the table of the cache `results` refers to, by name
  cbCalls            \* how often integrate() invoked cb

forgeVars == <<query, orig, pass, pc, err, calls, popKeys, popIdx, production, warned>>
integVars == <<cache, cache0, joinInstructions, ipc, groups, gi, outcome, results,
              cbCalls>>
vars == <<query, orig, pass, pc, err, calls, popKeys, popIdx, production, warned,
          cache, cache0, joinInstructions, ipc, groups, gi, outcome, results,
          cbCalls>>

(***************************************************************************)
(* JavaScript values, tagged by type.                                      *)
(***************************************************************************)
Undefined == [t |-> "undefined"]
Null == [t |-> "null"]
True == [t |-> "boolean", v |-> TRUE]
False == [t |-> "boolean", v |-> FALSE]
Fn == [t |-> "function"]
Str(s) == [t |-> "string", v |-> s]
Num(n) == [t |-> "number", v |-> n]
Arr(s) == [t |-> "array", v |-> s]

\* Number.MAX_SAFE_INTEGER (2^53 - 1), kept symbolic
MAX_SAFE_INTEGER == [t |-> "number", max |-> TRUE]

isUndefined(x) == x.t = "undefined"
isString(x) == x.t = "string"
isArray(x) == x.t = "array"
isFunction(x) == x.t = "function"
isObject(x) == x.t \in {"dict", "array", "function"}

\* a sequence as the set of its elements
Range(s) == {s[i] : i \in 1..Len(s)}

\* a criteria dictionary; a clause that is not there reads as undefined
Criteria(w, l, sk, so, se, o) ==
  [t |-> "dict", where |-> w, limit |-> l, skip |-> sk, sort |-> so,
   select |-> se, omit |-> o]

\* {}
EmptyCriteria ==
  Criteria(Undefined, Undefined, Undefined, Undefined, Undefined, Undefined)

\* a dictionary with ordered keys: e is the sequence of its [k, v] entries
Dict(e) == [t |-> "dict", e |-> e]

dictKeys(d) == [i \in 1..Len(d.e) |-> d.e[i].k]

dictHas(d, k) == \E i \in 1..Len(d.e) : d.e[i].k = k

dictGet(d, k) ==
  IF dictHas(d, k)
  THEN LET i == CHOOSE j \in 1..Len(d.e) : d.e[j].k = k IN d.e[i].v
  ELSE Undefined

dictSet(d, k, x) ==
  Dict([i \in 1..Len(d.e) |-> IF d.e[i].k = k THEN [k |-> k, v |-> x] ELSE d.e[i]])

RECURSIVE without(_, _)
without(e, k) ==
  IF e = <<>> THEN <<>>
  ELSE IF Head(e).k = k THEN without(Tail(e), k)
  ELSE <<Head(e)>> \o without(Tail(e), k)

dictDelete(d, k) == Dict(without(d.e, k))

(***************************************************************************)
(* The ontology: the models of the usage examples that follow              *)
(* forgeStageTwoQuery() in its source file.                                *)
(***************************************************************************)
NotRegistered == [registered |-> FALSE]

AttrDef(ty, m, c) == [registered |-> TRUE, type |-> ty, model |-> m, collection |-> c]

Ontology ==
  [user |-> [primaryKey |-> "id",
             attributes |-> [id   |-> AttrDef("string", "", ""),
                             age  |-> AttrDef("number", "", ""),
                             mom  |-> AttrDef("", "user", ""),
                             pets |-> AttrDef("", "", "pet")]],
   pet  |-> [primaryKey |-> "id",
             attributes |-> [id   |-> AttrDef("number", "", "")]]]

\* getModel(): E_MODEL_NOT_REGISTERED for an identity the orm does not hold
modelRegistered(identity) == identity \in DOMAIN Ontology

getModel(identity) == Ontology[identity]

\* getAttribute(): E_ATTR_NOT_REGISTERED is modelled as NotRegistered
getAttribute(attrName, identity) ==
  IF attrName \in DOMAIN Ontology[identity].attributes
  THEN Ontology[identity].attributes[attrName]
  ELSE NotRegistered

(***************************************************************************)
(* Errors.                                                                 *)
(***************************************************************************)
NoError == [kind |-> "none", code |-> ""]
\* buildUsageError(code, ...)
UsageError(code) == [kind |-> "usage", code |-> code]
\* new Error('Consistency violation: ...'), which carries no code
ConsistencyViolation == [kind |-> "fatal", code |-> ""]
\* throw e: a delegate's error passed on as it is
Rethrown(code) == [kind |-> "rethrown", code |-> code]

UsageCodes ==
  {"E_INVALID_META", "E_INVALID_CRITERIA", "E_INVALID_POPULATES",
   "E_INVALID_NUMERIC_ATTR_NAME", "E_INVALID_STREAM_ITERATEE",
   "E_INVALID_NEW_RECORD", "E_INVALID_NEW_RECORDS", "E_INVALID_VALUES_TO_SET",
   "E_INVALID_TARGET_RECORD_IDS", "E_INVALID_COLLECTION_ATTR_NAME",
   "E_INVALID_ASSOCIATED_IDS"}

(***************************************************************************)
(* The external normalizers, as the forge sees them: a result or an error  *)
(* code.                                                                   *)
(***************************************************************************)
Ok(x) == [ok |-> TRUE, code |-> "", value |-> x]
Fail(code) == [ok |-> FALSE, code |-> code, value |-> Undefined]

\* where clauses, by what normalizeCriteria() makes of them
Where(x) == [t |-> "dict", v |-> x]
WhereEmpty == Where("{}")
WherePk == Where("{id:'3'}")
\* a where clause that can match no record
WhereNothing == Where("{id:{in:[]}}")
\* a where clause normalizeCriteria() trips over (an error with no known code)
WhereUnexpected == Where("{trip}")
\* a where clause normalizeCriteria() fails on with a code its callers do not
\* know (E_UNRECOGNIZED)
WhereOdd == Where("{odd}")
\* not a where clause at all
WhereIrregular == Str("garbage")

\* a comparator directive of a normalized sort clause: {attr: dir}
CD(a, d) == [attr |-> a, dir |-> d]

\* 'attr DIR'
parseSortString(s) ==
  CASE s = "mom ASC"   -> CD("mom", "ASC")
    [] s = "mom DESC"  -> CD("mom", "DESC")
    [] s = "pets DESC" -> CD("pets", "DESC")
    [] s = "age ASC"   -> CD("age", "ASC")
    [] s = "id DESC"   -> CD("id", "DESC")
    [] s = "id ASC"    -> CD("id", "ASC")
    [] OTHER           -> CD(s, "ASC")

\* one item of an array sort clause: 'attr DIR' or {attr: 'DIR'}; a comparator
\* that is normalized already stays
normalizeComparator(x) ==
  IF "attr" \in DOMAIN x THEN x
  ELSE IF isString(x) THEN parseSortString(x.v)
  ELSE IF x.t = "dict" THEN CD(x.e[1].k, x.e[1].v.v)
  ELSE x

\* Mongo-style {attr: 1}, {attr: -1}
normalizeMongoSort(d) ==
  [i \in 1..Len(d.e) |-> CD(d.e[i].k, IF d.e[i].v = Num(1) THEN "ASC" ELSE "DESC")]

normalizeSortClause(so, pk) ==
  CASE isUndefined(so) -> Arr(<<CD(pk, "ASC")>>)
    [] isString(so)    -> Arr(<<parseSortString(so.v)>>)
    [] so.t = "dict"   -> Arr(normalizeMongoSort(so))
    [] isArray(so)     ->
         IF so.v = <<>> THEN Arr(<<CD(pk, "ASC")>>)
         ELSE Arr([i \in 1..Len(so.v) |-> normalizeComparator(so.v[i])])
    [] OTHER           -> so

normalizeWhereClause(w) == IF isUndefined(w) THEN WhereEmpty ELSE w

\* normalizeCriteria(criteria, modelIdentity, orm, ensureTypeSafety)
normalizeCriteria(c, identity) ==
  LET pk == getModel(identity).primaryKey IN
  CASE c = False -> Fail("E_WOULD_RESULT_IN_NOTHING")
    [] isUndefined(c) ->
         Ok(Criteria(WhereEmpty, MAX_SAFE_INTEGER, Num(0), Arr(<<CD(pk, "ASC")>>),
                     Arr(<<"*">>), Arr(<<>>)))
    [] c.t \in {"string", "number"} ->
         Ok(Criteria(WherePk, MAX_SAFE_INTEGER, Num(0), Arr(<<CD(pk, "ASC")>>),
                     Arr(<<"*">>), Arr(<<>>)))
    [] c.t = "dict" ->
         IF c.where = WhereIrregular THEN Fail("E_HIGHLY_IRREGULAR")
         ELSE IF c.where = WhereNothing THEN Fail("E_WOULD_RESULT_IN_NOTHING")
         ELSE IF c.where = WhereUnexpected THEN Fail("")
         ELSE IF c.where = WhereOdd THEN Fail("E_UNRECOGNIZED")
         ELSE Ok(Criteria(normalizeWhereClause(c.where),
                          IF isUndefined(c.limit) THEN MAX_SAFE_INTEGER ELSE c.limit,
                          IF isUndefined(c.skip) THEN Num(0) ELSE c.skip,
                          normalizeSortClause(c.sort, pk),
                          IF isUndefined(c.select) THEN Arr(<<"*">>) ELSE c.select,
                          IF isUndefined(c.omit) THEN Arr(<<>>) ELSE c.omit))
    [] OTHER -> Fail("E_HIGHLY_IRREGULAR")

\* a new record / a value: {id: ..., age: ...}
Rec(id, age) == [t |-> "dict", id |-> id, age |-> age]

\* a number as the string it is coerced to
numberToString(n) ==
  CASE n = 1 -> "1" [] n = 2 -> "2" [] n = 3 -> "3" [] OTHER -> "0"

\* normalizeNewRecord(newRecord, modelIdentity, orm, ensureTypeSafety); it may
\* fail with an error that has no code, or with a code its callers do not
\* know (E_UNRECOGNIZED)
normalizeNewRecord(r, identity, typeSafe) ==
  IF r.t # "dict" THEN Fail("E_HIGHLY_IRREGULAR")
  ELSE IF isUndefined(r.id) THEN Fail("E_MISSING_REQUIRED")
  ELSE IF isFunction(r.id) THEN Fail("")
  ELSE IF isFunction(r.age) THEN Fail("E_UNRECOGNIZED")
  ELSE IF r.id.t = "number" /\ getAttribute("id", identity).type = "string"
       THEN IF typeSafe THEN Fail("E_INVALID")
            ELSE Ok(Rec(Str(numberToString(r.id.v)),
                        IF isUndefined(r.age) THEN Null ELSE r.age))
  ELSE Ok(Rec(r.id, IF isUndefined(r.age) THEN Null ELSE r.age))

\* normalizeValueToSet(value, attrName, modelIdentity, orm, ensureTypeSafety)
normalizeValueToSet(x, attrName, identity, typeSafe) ==
  LET def == getAttribute(attrName, identity) IN
  IF isUndefined(x) THEN Fail("E_SHOULD_BE_IGNORED")
  ELSE IF isFunction(x) THEN Fail("E_HIGHLY_IRREGULAR")
  ELSE IF x.t = "null" THEN Fail("")
  ELSE IF def.registered /\ def.type = "string" /\ x.t = "number"
       THEN IF typeSafe THEN Fail("E_INVALID") ELSE Ok(Str(numberToString(x.v)))
  ELSE IF def.registered /\ def.type = "number" /\ x.t = "string"
       THEN Fail("E_INVALID")
  ELSE Ok(x)

pkValueOk(x, pkType) ==
  \/ pkType = "string" /\ x.t = "string" /\ x.v # ""
  \/ pkType = "number" /\ x.t = "number"

\* normalizePkValues(pkValueOrPkValues, expectedPkType)
normalizePkValues(x, pkType) ==
  LET items == IF isArray(x) THEN x.v ELSE <<x>> IN
  IF \A i \in 1..Len(items) : pkValueOk(items[i], pkType)
  THEN Ok(Arr(items))
  ELSE Fail("E_INVALID_PK_VALUE")

(***************************************************************************)
(* forgeStageTwoQuery(query, orm)                                          *)
(***************************************************************************)
TopLevelKeys ==
  {"meta", "using", "method", "criteria", "populates", "numericAttrName",
   "eachRecordFn", "eachBatchFn", "newRecord", "newRecords", "valuesToSet",
   "targetRecordIds", "collectionAttrName", "associatedIds", "foo"}

\* _.keys(query): a top-level key is on the query when its value is defined
keys(q) == {k \in TopLevelKeys : ~isUndefined(q[k])}

\* variant of SupportedMethods: a method of an earlier release is still a case
\* of the switch
SupportedMethodsAndFindOrCreateEach ==
  {"find", "findOne", "stream", "count", "sum", "avg", "create", "createEach",
   "findOrCreate", "update", "destroy", "addToCollection",
   "removeFromCollection", "replaceCollection", "findOrCreateEach"}

SupportedMethods ==
  {"find", "findOne", "stream", "count", "sum", "avg", "create", "createEach",
   "findOrCreate", "update", "destroy", "addToCollection",
   "removeFromCollection", "replaceCollection"}

\* _getQueryKeys(): the query keys of a recognized method
queryKeys(method) ==
  CASE method \in {"find", "findOne"} -> {"criteria", "populates"}
    [] method = "stream" -> {"criteria", "populates", "eachRecordFn", "eachBatchFn"}
    [] method \in {"count", "destroy"} -> {"criteria"}
    [] method \in {"sum", "avg"} -> {"numericAttrName", "criteria"}
    [] method = "create" -> {"newRecord"}
    [] method = "createEach" -> {"newRecords"}
    [] method = "findOrCreate" -> {"criteria", "newRecord"}
    [] method = "update" -> {"criteria", "valuesToSet"}
    [] method \in {"addToCollection", "removeFromCollection", "replaceCollection"} ->
         {"targetRecordIds", "collectionAttrName", "associatedIds"}
    [] OTHER -> {}

\* variant of allowedKeys(): the query keys of all methods are concatenated,
\* not the ones of the query's method
allowedKeysOfAnyMethod(method) ==
  {"meta", "using", "method"} \cup UNION {queryKeys(m) : m \in SupportedMethods}

allowedKeys(method) == {"meta", "using", "method"} \cup queryKeys(method)

\* _.difference(_.keys(query), allowedKeys)
extraneousKeys(q) == keys(q) \ allowedKeys(q.method.v)

\* variant of PROJECTION_COMPATIBLE_METHODS: `stream` is missing from the list
PROJECTION_COMPATIBLE_METHODS_WITHOUT_STREAM == {"find", "findOne"}

\* variant of PROJECTION_COMPATIBLE_METHODS: `count` slipped into the list
PROJECTION_COMPATIBLE_METHODS_AND_COUNT == {"find", "findOne", "stream", "count"}

PROJECTION_COMPATIBLE_METHODS == {"find", "findOne", "stream"}

\* variant of LIMIT_COMPATIBLE_METHODS: `findOne` slipped into the list
LIMIT_COMPATIBLE_METHODS_AND_FINDONE ==
  {"find", "findOne", "stream", "sum", "avg", "update", "destroy"}

LIMIT_COMPATIBLE_METHODS == {"find", "stream", "sum", "avg", "update", "destroy"}

\* !query.meta || query.meta.typeSafety !== ''
ensureTypeSafety(q) ==
  ~(q.meta.t = "dict" /\ q.meta.typeSafety = Str(""))

\* variant of StageOrder: the block of `collectionAttrName` runs before the
\* block of `targetRecordIds`
StageOrderCollectionAttrNameFirst ==
  <<"criteria", "populates", "numericAttrName", "iteratee", "newRecord",
    "newRecords", "valuesToSet", "collectionAttrName", "targetRecordIds",
    "associatedIds">>

\* the blocks of the forge after the key check, in the order of the source
StageOrder ==
  <<"criteria", "populates", "numericAttrName", "iteratee", "newRecord",
    "newRecords", "valuesToSet", "targetRecordIds", "collectionAttrName",
    "associatedIds">>

\* _.contains(queryKeys, ...): whether the block runs for the method
stageApplies(stage, method) ==
  IF stage = "iteratee"
  THEN {"eachRecordFn", "eachBatchFn"} \cap queryKeys(method) # {}
  ELSE stage \in queryKeys(method)

stageIndex(stage) ==
  IF stage = "keys" THEN 0
  ELSE CHOOSE i \in 1..Len(StageOrder) : StageOrder[i] = stage

\* the next block that runs for the method, or the return
stageAfter(stage, method) ==
  LET later == {j \in (stageIndex(stage) + 1)..Len(StageOrder) :
                  stageApplies(StageOrder[j], method)}
  IN IF later = {} THEN "done"
     ELSE StageOrder[CHOOSE j \in later : \A h \in later : j <= h]

Move(q, p, e, c) ==
  /\ query' = q
  /\ pc' = p
  /\ err' = e
  /\ calls' = c

Throw(q, e, c) == Move(q, "failed", e, c)

\* variant of criteriaFailure: the default case is `throw e`, as in the other
\* blocks
criteriaFailureRethrowing(code, usageCode) ==
  CASE code = "E_HIGHLY_IRREGULAR" -> UsageError(usageCode)
    [] code = "E_WOULD_RESULT_IN_NOTHING" -> ConsistencyViolation
    [] OTHER -> Rethrown(code)

\* how the forge rethrows a failure of normalizeCriteria()
criteriaFailure(code, usageCode) ==
  CASE code = "E_HIGHLY_IRREGULAR" -> UsageError(usageCode)
    [] code = "E_WOULD_RESULT_IN_NOTHING" -> ConsistencyViolation
    [] OTHER -> ConsistencyViolation

\* variant of the check of `meta`: arrays and functions, being objects, pass
metaInvalidUnlessObject(meta) == ~isUndefined(meta) /\ ~isObject(meta)

\* the check of `meta`
metaInvalid(meta) ==
  ~isUndefined(meta) /\ (~isObject(meta) \/ isArray(meta) \/ isFunction(meta))

CheckMeta ==
  /\ pc = "meta"
  /\ IF metaInvalid(query.meta)
     THEN Throw(query, UsageError("E_INVALID_META"), calls)
     ELSE Move(query, "using", err, calls)
  /\ UNCHANGED <<orig, pass, popKeys, popIdx, production, warned>>
  /\ UNCHANGED integVars

\* the check of `using`, and the lookup of the model
CheckUsing ==
  /\ pc = "using"
  /\ IF ~isString(query.using) \/ query.using = Str("")
     THEN Throw(query, ConsistencyViolation, calls)
     ELSE IF ~modelRegistered(query.using.v)
     THEN Throw(query, ConsistencyViolation, calls)
     ELSE Move(query, "method", err, calls)
  /\ UNCHANGED <<orig, pass, popKeys, popIdx, production, warned>>
  /\ UNCHANGED integVars

\* the check of `method`, and _getQueryKeys()
CheckMethod ==
  /\ pc = "method"
  /\ IF ~isString(query.method) \/ query.method = Str("")
     THEN Throw(query, ConsistencyViolation, calls)
     ELSE IF query.method.v \notin SupportedMethods
     THEN Throw(query, ConsistencyViolation, calls)
     ELSE Move(query, "keys", err, calls)
  /\ UNCHANGED <<orig, pass, popKeys, popIdx, production, warned>>
  /\ UNCHANGED integVars

\* variant of the check for extraneous keys: `criteria` is given its default
\* before the keys are looked at
CheckKeysAfterDefault ==
  /\ pc = "keys"
  /\ LET q1 == IF isUndefined(query.criteria)
               THEN [query EXCEPT !.criteria = EmptyCriteria]
               ELSE query
     IN IF extraneousKeys(query) # {}
        THEN Throw(q1, ConsistencyViolation, calls)
        ELSE Move(query, stageAfter("keys", query.method.v), err, calls)
  /\ UNCHANGED <<orig, pass, popKeys, popIdx, production, warned>>
  /\ UNCHANGED integVars

\* the check for extraneous keys
CheckKeys ==
  /\ pc = "keys"
  /\ IF extraneousKeys(query) # {}
     THEN Throw(query, ConsistencyViolation, calls)
     ELSE Move(query, stageAfter("keys", query.method.v), err, calls)
  /\ UNCHANGED <<orig, pass, popKeys, popIdx, production, warned>>
  /\ UNCHANGED integVars

\* criteria explicitly specifies `select` or `omit`, and the method has no projections
projectionIncompatible(q) ==
  /\ isObject(q.criteria)
  /\ q.criteria.t = "dict"
  /\ ~isUndefined(q.criteria.select) \/ ~isUndefined(q.criteria.omit)
  /\ q.method.v \notin PROJECTION_COMPATIBLE_METHODS

\* variant of limitIncompatible: the check of `limit` is missing
limitIncompatibleNever(q) == FALSE

\* criteria explicitly specifies `limit`, and the method has no limit
limitIncompatible(q) ==
  /\ isObject(q.criteria)
  /\ q.criteria.t = "dict"
  /\ ~isUndefined(q.criteria.limit)
  /\ q.method.v \notin LIMIT_COMPATIBLE_METHODS

\* variant of the `criteria` block: the criteria is normalized first, and the
\* two compatibility checks look at the normalized criteria
ForgeCriteriaNormalizeFirst ==
  /\ pc = "criteria"
  /\ LET q1 == IF isUndefined(query.criteria)
               THEN [query EXCEPT !.criteria = EmptyCriteria]
               ELSE query
         r == normalizeCriteria(q1.criteria, q1.using.v)
         q2 == [q1 EXCEPT !.criteria = r.value]
         c2 == Append(calls, "normalizeCriteria")
     IN IF ~r.ok
        THEN Throw(q1, criteriaFailure(r.code, "E_INVALID_CRITERIA"), c2)
        ELSE IF projectionIncompatible(q2)
        THEN Throw(q2, UsageError("E_INVALID_CRITERIA"), c2)
        ELSE IF limitIncompatible(q2)
        THEN Throw(q2, UsageError("E_INVALID_CRITERIA"), c2)
        ELSE Move(q2, stageAfter("criteria", q1.method.v), err, c2)
  /\ UNCHANGED <<orig, pass, popKeys, popIdx, production, warned>>
  /\ UNCHANGED integVars

\* the `criteria` block
ForgeCriteria ==
  /\ pc = "criteria"
  /\ LET q1 == IF isUndefined(query.criteria)
               THEN [query EXCEPT !.criteria = EmptyCriteria]
               ELSE query
         r == normalizeCriteria(q1.criteria, q1.using.v)
     IN IF projectionIncompatible(q1)
        THEN Throw(q1, UsageError("E_INVALID_CRITERIA"), calls)
        ELSE IF limitIncompatible(q1)
        THEN Throw(q1, UsageError("E_INVALID_CRITERIA"), calls)
        ELSE IF r.ok
        THEN Move([q1 EXCEPT !.criteria = r.value],
                  stageAfter("criteria", q1.method.v), err,
                  Append(calls, "normalizeCriteria"))
        ELSE Throw(q1, criteriaFailure(r.code, "E_INVALID_CRITERIA"),
                   Append(calls, "normalizeCriteria"))
  /\ UNCHANGED <<orig, pass, popKeys, popIdx, production, warned>>
  /\ UNCHANGED integVars

\* isCapableOfOptimizedPopulate(): in the modelled orm the models share no
\* datastore with native joins
isCapableOfOptimizedPopulate(attrName, identity) == FALSE

\* the `populates` block up to the loop: the default and the dictionary check
ForgePopulates ==
  /\ pc = "populates"
  /\ LET q1 == IF isUndefined(query.populates)
               THEN [query EXCEPT !.populates = Dict(<<>>)]
               ELSE query
         p == q1.populates
     IN IF ~isObject(p) \/ isArray(p) \/ isFunction(p)
        THEN /\ Throw(q1, UsageError("E_INVALID_POPULATES"), calls)
             /\ UNCHANGED <<popKeys, popIdx>>
        ELSE /\ Move(q1,
                     IF p.e = <<>> THEN stageAfter("populates", q1.method.v)
                     ELSE "populateEach",
                     err, calls)
             /\ popKeys' = dictKeys(p)
             /\ popIdx' = 1
  /\ UNCHANGED <<orig, pass, production, warned>>
  /\ UNCHANGED integVars

\* variant of selectLacks: whether the attribute is selected already is not
\* looked at
selectLacksUnlessWildcard(criteria, populateAttrName) ==
  criteria.select.v = <<>> \/ criteria.select.v[1] # "*"

\* the populated attribute is missing from an explicit `select`
selectLacks(criteria, populateAttrName) ==
  /\ criteria.select.v = <<>> \/ criteria.select.v[1] # "*"
  /\ populateAttrName \notin Range(criteria.select.v)

\* variant of the omit check: only the first item of `omit` is looked at
isOmittedFirst(criteria, populateAttrName) ==
  criteria.omit.v # <<>> /\ criteria.omit.v[1] = populateAttrName

\* _.contains(query.criteria.omit, populateAttrName)
isOmitted(criteria, populateAttrName) == populateAttrName \in Range(criteria.omit.v)

\* variant of isMentionedInPrimarySort: only the first comparator is looked at
isFirstInPrimarySort(criteria, populateAttrName) ==
  criteria.sort.v # <<>> /\ criteria.sort.v[1].attr = populateAttrName

isMentionedInPrimarySort(criteria, populateAttrName) ==
  \E i \in 1..Len(criteria.sort.v) : criteria.sort.v[i].attr = populateAttrName

\* variant of the singular association's check: whatever is given counts as `true`
forgeSingularPopulateTruthy(rhs) == Ok(True)

\* the populate value of a singular ("model") association: {} becomes true,
\* and nothing but true is taken
forgeSingularPopulate(rhs) ==
  IF rhs = EmptyCriteria THEN Ok(True)
  ELSE IF rhs # True THEN Fail("E_INVALID_POPULATES")
  ELSE Ok(rhs)

wasSubcriteriaSortOmitted(sub) ==
  \/ ~isObject(sub)
  \/ sub.t = "dict" /\ (isUndefined(sub.sort) \/ sub.sort = Arr(<<>>))

isPotentiallyDangerous(subcriteria, sortOmitted) ==
  \/ subcriteria.skip # Num(0)
  \/ subcriteria.limit # MAX_SAFE_INTEGER
  \/ ~sortOmitted

\* one turn of the loop over the keys of `populates`
PopulateEach ==
  /\ pc = "populateEach"
  /\ LET populateAttrName == popKeys[popIdx]
         rhs == dictGet(query.populates, populateAttrName)
         next == IF popIdx < Len(popKeys) THEN "populateEach"
                 ELSE stageAfter("populates", query.method.v)
         q1 == IF selectLacks(query.criteria, populateAttrName)
               THEN [query EXCEPT !.criteria.select =
                       Arr(Append(@.v, populateAttrName))]
               ELSE query
         populateAttrDef == getAttribute(populateAttrName, query.using.v)
         sub == IF rhs = True THEN EmptyCriteria ELSE rhs
         q2 == [q1 EXCEPT !.populates = dictSet(@, populateAttrName, sub)]
         r == normalizeCriteria(sub, populateAttrDef.collection)
         c2 == Append(calls, "normalizeCriteria")
     IN IF rhs = False \/ isUndefined(rhs)
        THEN /\ Move([query EXCEPT !.populates = dictDelete(@, populateAttrName)],
                     next, err, calls)
             /\ UNCHANGED warned
        ELSE IF isOmitted(query.criteria, populateAttrName)
        THEN Throw(query, UsageError("E_INVALID_POPULATES"), calls) /\ UNCHANGED warned
        ELSE IF isMentionedInPrimarySort(q1.criteria, populateAttrName)
        THEN Throw(q1, UsageError("E_INVALID_POPULATES"), calls) /\ UNCHANGED warned
        ELSE IF ~populateAttrDef.registered
        THEN Throw(q1, UsageError("E_INVALID_POPULATES"), calls) /\ UNCHANGED warned
        ELSE IF populateAttrDef.model = "" /\ populateAttrDef.collection = ""
        THEN Throw(q1, UsageError("E_INVALID_POPULATES"), calls) /\ UNCHANGED warned
        ELSE IF populateAttrDef.model # ""
        THEN /\ IF forgeSingularPopulate(rhs).ok
                THEN Move([q1 EXCEPT !.populates =
                             dictSet(@, populateAttrName, forgeSingularPopulate(rhs).value)],
                          next, err, calls)
                ELSE Throw(q1, UsageError(forgeSingularPopulate(rhs).code), calls)
             /\ UNCHANGED warned
        ELSE IF ~r.ok
        THEN /\ Throw(q2, criteriaFailure(r.code, "E_INVALID_POPULATES"), c2)
             /\ UNCHANGED warned
        ELSE /\ Move([q2 EXCEPT !.populates = dictSet(@, populateAttrName, r.value)],
                     next, err, c2)
             /\ warned' =
                  IF /\ production
                     /\ ~isCapableOfOptimizedPopulate(populateAttrName, query.using.v)
                     /\ isPotentiallyDangerous(r.value, wasSubcriteriaSortOmitted(sub))
                  THEN warned \cup {populateAttrName}
                  ELSE warned
  /\ popIdx' = popIdx + 1
  /\ UNCHANGED <<orig, pass, popKeys, production>>
  /\ UNCHANGED integVars

\* variant of the `numericAttrName` block: the declared type is not looked at
ForgeNumericAttrNameAnyType ==
  /\ pc = "numericAttrName"
  /\ LET name == query.numericAttrName
         numericAttrDef == getAttribute(name.v, query.using.v)
     IN IF isUndefined(name) \/ ~isString(name)
        THEN Throw(query, UsageError("E_INVALID_NUMERIC_ATTR_NAME"), calls)
        ELSE IF ~numericAttrDef.registered
        THEN Throw(query, UsageError("E_INVALID_NUMERIC_ATTR_NAME"), calls)
        ELSE Move(query, stageAfter("numericAttrName", query.method.v), err, calls)
  /\ UNCHANGED <<orig, pass, popKeys, popIdx, production, warned>>
  /\ UNCHANGED integVars

\* the `numericAttrName` block
ForgeNumericAttrName ==
  /\ pc = "numericAttrName"
  /\ LET name == query.numericAttrName
         numericAttrDef == getAttribute(name.v, query.using.v)
     IN IF isUndefined(name) \/ ~isString(name)
        THEN Throw(query, UsageError("E_INVALID_NUMERIC_ATTR_NAME"), calls)
        ELSE IF ~numericAttrDef.registered
        THEN Throw(query, UsageError("E_INVALID_NUMERIC_ATTR_NAME"), calls)
        ELSE IF numericAttrDef.type # "number"
        THEN Throw(query, UsageError("E_INVALID_NUMERIC_ATTR_NAME"), calls)
        ELSE Move(query, stageAfter("numericAttrName", query.method.v), err, calls)
  /\ UNCHANGED <<orig, pass, popKeys, popIdx, production, warned>>
  /\ UNCHANGED integVars

\* variant of the iteratee block: two functions pass (or, not xor)
ForgeIterateeEither ==
  /\ pc = "iteratee"
  /\ LET rf == query.eachRecordFn
         bf == query.eachBatchFn
         bad == IF ~isUndefined(rf) /\ ~isUndefined(bf)
                THEN ~isFunction(rf) \/ ~isFunction(bf)
                ELSE IF ~isUndefined(rf) THEN ~isFunction(rf)
                ELSE IF ~isUndefined(bf) THEN ~isFunction(bf)
                ELSE TRUE
     IN IF bad
        THEN Throw(query, UsageError("E_INVALID_STREAM_ITERATEE"), calls)
        ELSE Move(query, stageAfter("iteratee", query.method.v), err, calls)
  /\ UNCHANGED <<orig, pass, popKeys, popIdx, production, warned>>
  /\ UNCHANGED integVars

\* the `eachRecordFn` / `eachBatchFn` block
ForgeIteratee ==
  /\ pc = "iteratee"
  /\ LET rf == query.eachRecordFn
         bf == query.eachBatchFn
         bad == IF ~isUndefined(rf) /\ ~isUndefined(bf) THEN TRUE
                ELSE IF ~isUndefined(rf) THEN ~isFunction(rf)
                ELSE IF ~isUndefined(bf) THEN ~isFunction(bf)
                ELSE TRUE
     IN IF bad
        THEN Throw(query, UsageError("E_INVALID_STREAM_ITERATEE"), calls)
        ELSE Move(query, stageAfter("iteratee", query.method.v), err, calls)
  /\ UNCHANGED <<orig, pass, popKeys, popIdx, production, warned>>
  /\ UNCHANGED integVars

\* variant of newRecordFailure: the case 'E_MISSING_REQUIRED' is missing
newRecordFailureWithoutMissingRequired(code, usageCode) ==
  IF code \in {"E_INVALID", "E_HIGHLY_IRREGULAR"}
  THEN UsageError(usageCode)
  ELSE Rethrown(code)

\* how the forge rethrows a failure of normalizeNewRecord()
newRecordFailure(code, usageCode) ==
  IF code \in {"E_INVALID", "E_MISSING_REQUIRED", "E_HIGHLY_IRREGULAR"}
  THEN UsageError(usageCode)
  ELSE Rethrown(code)

\* the `newRecord` block
ForgeNewRecord ==
  /\ pc = "newRecord"
  /\ LET r == normalizeNewRecord(query.newRecord, query.using.v, ensureTypeSafety(query))
         c2 == Append(calls, "normalizeNewRecord")
     IN IF r.ok
        THEN Move([query EXCEPT !.newRecord = r.value],
                  stageAfter("newRecord", query.method.v), err, c2)
        ELSE Throw(query, newRecordFailure(r.code, "E_INVALID_NEW_RECORD"), c2)
  /\ UNCHANGED <<orig, pass, popKeys, popIdx, production, warned>>
  /\ UNCHANGED integVars

\* n times the same call, appended to the log
RECURSIVE logCalls(_, _, _)
logCalls(c, name, n) == IF n = 0 THEN c ELSE logCalls(Append(c, name), name, n - 1)

\* _.map(query.newRecords, normalizeNewRecord), up to the first failure:
\* the records normalized so far, the failure's code, the number of calls
RECURSIVE mapNewRecords(_, _, _)
mapNewRecords(records, identity, typeSafe) ==
  IF records = <<>> THEN [ok |-> TRUE, code |-> "", value |-> <<>>, n |-> 0]
  ELSE LET r == normalizeNewRecord(Head(records), identity, typeSafe)
           rest == mapNewRecords(Tail(records), identity, typeSafe)
       IN IF ~r.ok THEN [ok |-> FALSE, code |-> r.code, value |-> <<>>, n |-> 1]
          ELSE [rest EXCEPT !.value = <<r.value>> \o @, !.n = @ + 1]

\* the `newRecords` block
ForgeNewRecords ==
  /\ pc = "newRecords"
  /\ LET m == mapNewRecords(query.newRecords.v, query.using.v, ensureTypeSafety(query))
         c2 == logCalls(calls, "normalizeNewRecord", m.n)
     IN IF isUndefined(query.newRecords) \/ ~isArray(query.newRecords)
        THEN Throw(query, UsageError("E_INVALID_NEW_RECORDS"), calls)
        ELSE IF m.ok
        THEN Move([query EXCEPT !.newRecords = Arr(m.value)],
                  stageAfter("newRecords", query.method.v), err, c2)
        ELSE Throw(query, newRecordFailure(m.code, "E_INVALID_NEW_RECORDS"), c2)
  /\ UNCHANGED <<orig, pass, popKeys, popIdx, production, warned>>
  /\ UNCHANGED integVars

\* the loop over _.keys(query.valuesToSet), from key i on: the dictionary as the
\* loop leaves it, the code it stopped on, the number of calls
RECURSIVE eachValueToSet(_, _, _, _, _)
eachValueToSet(d, ks, i, identity, typeSafe) ==
  IF i > Len(ks) THEN [ok |-> TRUE, code |-> "", value |-> d, n |-> 0]
  ELSE LET r == normalizeValueToSet(dictGet(d, ks[i]), ks[i], identity, typeSafe)
           d2 == IF r.ok THEN dictSet(d, ks[i], r.value) ELSE dictDelete(d, ks[i])
           rest == eachValueToSet(d2, ks, i + 1, identity, typeSafe)
       IN IF ~r.ok /\ r.code # "E_SHOULD_BE_IGNORED"
          THEN [ok |-> FALSE, code |-> r.code, value |-> d, n |-> 1]
          ELSE [rest EXCEPT !.n = @ + 1]

\* variant of valueToSetFailure: the case 'E_INVALID' is missing
valueToSetFailureWithoutInvalid(code) ==
  IF code = "E_HIGHLY_IRREGULAR"
  THEN UsageError("E_INVALID_VALUES_TO_SET")
  ELSE Rethrown(code)

\* how the forge rethrows a failure of normalizeValueToSet()
valueToSetFailure(code) ==
  IF code \in {"E_HIGHLY_IRREGULAR", "E_INVALID"}
  THEN UsageError("E_INVALID_VALUES_TO_SET")
  ELSE Rethrown(code)

\* the `valuesToSet` block
ForgeValuesToSet ==
  /\ pc = "valuesToSet"
  /\ LET vts == query.valuesToSet
         m == eachValueToSet(vts, dictKeys(vts), 1, query.using.v, ensureTypeSafety(query))
         c2 == logCalls(calls, "normalizeValueToSet", m.n)
     IN IF ~isObject(vts) \/ isFunction(vts) \/ isArray(vts)
        THEN Throw(query, UsageError("E_INVALID_VALUES_TO_SET"), calls)
        ELSE IF m.ok
        THEN Move([query EXCEPT !.valuesToSet = m.value],
                  stageAfter("valuesToSet", query.method.v), err, c2)
        ELSE Throw([query EXCEPT !.valuesToSet = m.value], valueToSetFailure(m.code), c2)
  /\ UNCHANGED <<orig, pass, popKeys, popIdx, production, warned>>
  /\ UNCHANGED integVars

\* how the forge rethrows a failure of normalizePkValues()
pkValuesFailure(code, usageCode) ==
  IF code = "E_INVALID_PK_VALUE" THEN UsageError(usageCode) ELSE Rethrown(code)

\* the `targetRecordIds` block
ForgeTargetRecordIds ==
  /\ pc = "targetRecordIds"
  /\ LET WLModel == getModel(query.using.v)
         pkAttrDef == getAttribute(WLModel.primaryKey, query.using.v)
         r == normalizePkValues(query.targetRecordIds, pkAttrDef.type)
         c2 == Append(calls, "normalizePkValues")
     IN IF r.ok
        THEN Move([query EXCEPT !.targetRecordIds = r.value],
                  stageAfter("targetRecordIds", query.method.v), err, c2)
        ELSE Throw(query, pkValuesFailure(r.code, "E_INVALID_TARGET_RECORD_IDS"), c2)
  /\ UNCHANGED <<orig, pass, popKeys, popIdx, production, warned>>
  /\ UNCHANGED integVars

\* variant of the `collectionAttrName` block: any registered attribute passes
ForgeCollectionAttrNameAnyAttribute ==
  /\ pc = "collectionAttrName"
  /\ LET name == query.collectionAttrName
         associationDef == getAttribute(name.v, query.using.v)
     IN IF ~isString(name)
        THEN Throw(query, UsageError("E_INVALID_COLLECTION_ATTR_NAME"), calls)
        ELSE IF ~associationDef.registered
        THEN Throw(query, UsageError("E_INVALID_COLLECTION_ATTR_NAME"), calls)
        ELSE Move(query, stageAfter("collectionAttrName", query.method.v), err, calls)
  /\ UNCHANGED <<orig, pass, popKeys, popIdx, production, warned>>
  /\ UNCHANGED integVars

\* the `collectionAttrName` block
ForgeCollectionAttrName ==
  /\ pc = "collectionAttrName"
  /\ LET name == query.collectionAttrName
         associationDef == getAttribute(name.v, query.using.v)
     IN IF ~isString(name)
        THEN Throw(query, UsageError("E_INVALID_COLLECTION_ATTR_NAME"), calls)
        ELSE IF ~associationDef.registered
        THEN Throw(query, UsageError("E_INVALID_COLLECTION_ATTR_NAME"), calls)
        ELSE IF associationDef.collection = ""
        THEN Throw(query, UsageError("E_INVALID_COLLECTION_ATTR_NAME"), calls)
        ELSE Move(query, stageAfter("collectionAttrName", query.method.v), err, calls)
  /\ UNCHANGED <<orig, pass, popKeys, popIdx, production, warned>>
  /\ UNCHANGED integVars

\* variant of associatedPkType: the primary key of the queried model is taken
associatedPkTypeOfUsing(q) ==
  getAttribute(getModel(q.using.v).primaryKey, q.using.v).type

\* the declared type of the associated model's primary key
associatedPkType(q) ==
  LET _associationDef == getAttribute(q.collectionAttrName.v, q.using.v)
      _otherModelIdentity == _associationDef.collection
      AssociatedModel == getModel(_otherModelIdentity)
      _associatedPkDef == getAttribute(AssociatedModel.primaryKey, _otherModelIdentity)
  IN _associatedPkDef.type

\* the `associatedIds` block
ForgeAssociatedIds ==
  /\ pc = "associatedIds"
  /\ LET r == normalizePkValues(query.associatedIds, associatedPkType(query))
         c2 == Append(calls, "normalizePkValues")
     IN IF r.ok
        THEN Move([query EXCEPT !.associatedIds = r.value],
                  stageAfter("associatedIds", query.method.v), err, c2)
        ELSE Throw(query, pkValuesFailure(r.code, "E_INVALID_ASSOCIATED_IDS"), c2)
  /\ UNCHANGED <<orig, pass, popKeys, popIdx, production, warned>>
  /\ UNCHANGED integVars

(***************************************************************************)
(* The join primitives leftOuterJoin(), innerJoin() and populate().        *)
(* A row is a record of its columns; a joined row pairs a left row with    *)
(* the right row matched to it.                                            *)
(***************************************************************************)
NoValue == -1

\* the right side of a left row that found no match
NullRow == [null |-> TRUE]

\* column k of a row; in a joined row the left side is looked at first
RECURSIVE Col(_, _)
Col(row, k) ==
  IF "left" \in DOMAIN row
  THEN LET a == Col(row.left, k) IN IF a # NoValue THEN a ELSE Col(row.right, k)
  ELSE IF k \in DOMAIN row THEN row[k]
  ELSE NoValue

matches(l, r, leftKey, rightKey) ==
  Col(l, leftKey) # NoValue /\ Col(l, leftKey) = Col(r, rightKey)

\* the rows of `right` matching l, each paired with l, in the order of `right`
RECURSIVE pairsOf(_, _, _, _)
pairsOf(l, right, leftKey, rightKey) ==
  IF right = <<>> THEN <<>>
  ELSE (IF matches(l, Head(right), leftKey, rightKey)
        THEN <<[left |-> l, right |-> Head(right)]>> ELSE <<>>)
       \o pairsOf(l, Tail(right), leftKey, rightKey)

RECURSIVE innerJoin(_, _, _, _)
innerJoin(left, right, leftKey, rightKey) ==
  IF left = <<>> THEN <<>>
  ELSE pairsOf(Head(left), right, leftKey, rightKey)
       \o innerJoin(Tail(left), right, leftKey, rightKey)

RECURSIVE leftOuterJoin(_, _, _, _)
leftOuterJoin(left, right, leftKey, rightKey) ==
  IF left = <<>> THEN <<>>
  ELSE LET ps == pairsOf(Head(left), right, leftKey, rightKey)
       IN (IF ps = <<>> THEN <<[left |-> Head(left), right |-> NullRow]>> ELSE ps)
          \o leftOuterJoin(Tail(left), right, leftKey, rightKey)

\* the child rows of the joined rows that belong to the parent row
RECURSIVE childrenOf(_, _, _)
childrenOf(parentRow, childRows, parentPK) ==
  IF childRows = <<>> THEN <<>>
  ELSE (IF Col(Head(childRows), parentPK) = Col(parentRow, parentPK)
        THEN <<Head(childRows).right>> ELSE <<>>)
       \o childrenOf(parentRow, Tail(childRows), parentPK)

\* populate(): every parent row gets, under alias, the child rows joined to it
populate(parentRows, alias, childRows, parentPK, childPK, fkToChild) ==
  [i \in 1..Len(parentRows) |->
     (alias :> childrenOf(parentRows[i], childRows, parentPK)) @@ parentRows[i]]

(***************************************************************************)
(* integrate(cache, joinInstructions, cb)                                  *)
(***************************************************************************)
\* a join instruction
Instruction(alias, parent, child, parentKey, childKey) ==
  [t |-> "dict", alias |-> alias, parent |-> parent, child |-> child,
   parentKey |-> parentKey, childKey |-> childKey]

\* cache[name]
tableOf(c, name) == IF name \in DOMAIN c.tables THEN c.tables[name] ELSE Undefined

\* joinInstructions[0]
firstInstruction(ji) == IF ji.v = <<>> THEN Undefined ELSE ji.v[1]

\* the anchor() checks of the arguments, in their order: `invalid`
invalid(c, ji) ==
  \/ ~isObject(c)
  \/ ~isArray(ji)
  \/ ~isObject(firstInstruction(ji))
  \/ ~isString(firstInstruction(ji).parent)
  \/ ~isObject(tableOf(c, firstInstruction(ji).parent.v))

\* Object.keys(cache[parent][0]) throws a TypeError when there is no first row
parentAttributeNamesThrows(c, ji) ==
  LET table == tableOf(c, firstInstruction(ji).parent.v)
  IN ~isArray(table) \/ table.v = <<>>

\* _.groupBy(joinInstructions, 'alias'): the groups in the order their aliases
\* first appear
RECURSIVE groupBy(_, _)
groupBy(instructions, acc) ==
  IF instructions = <<>> THEN acc
  ELSE LET x == Head(instructions)
           known == {i \in 1..Len(acc) : acc[i].alias = x.alias}
       IN groupBy(Tail(instructions),
                  IF known = {}
                  THEN Append(acc, [alias |-> x.alias, instructions |-> <<x>>])
                  ELSE [i \in 1..Len(acc) |->
                          IF i \in known
                          THEN [acc[i] EXCEPT !.instructions = Append(@, x)]
                          ELSE acc[i]])

\* the rows of a table of the cache
rowsOf(c, name) == tableOf(c, name).v

\* variant of twoHopChildRows: the second join is keyed by the first
\* instruction's parentKey
twoHopChildRowsFirstKey(c, instructions) ==
  innerJoin(leftOuterJoin(rowsOf(c, instructions[1].parent.v),
                          rowsOf(c, instructions[1].child),
                          instructions[1].parentKey,
                          instructions[1].childKey),
            rowsOf(c, instructions[2].child),
            instructions[1].parentKey,
            instructions[2].childKey)

\* N..N association: the joined rows handed to populate()
twoHopChildRows(c, instructions) ==
  innerJoin(leftOuterJoin(rowsOf(c, instructions[1].parent.v),
                          rowsOf(c, instructions[1].child),
                          instructions[1].parentKey,
                          instructions[1].childKey),
            rowsOf(c, instructions[2].child),
            instructions[2].parentKey,
            instructions[2].childKey)

\* variant of oneHopChildRows: leftKey and rightKey are swapped
oneHopChildRowsSwapped(c, instructions) ==
  innerJoin(rowsOf(c, instructions[1].parent.v),
            rowsOf(c, instructions[1].child),
            instructions[1].childKey,
            instructions[1].parentKey)

\* 1..N association: the joined rows handed to populate()
oneHopChildRows(c, instructions) ==
  innerJoin(rowsOf(c, instructions[1].parent.v),
            rowsOf(c, instructions[1].child),
            instructions[1].parentKey,
            instructions[1].childKey)

\* variant of eachAssociation: every group that has not two instructions is
\* joined by its first instruction
eachAssociationElseOneHop(c, rows, instructions, alias) ==
  IF Len(instructions) = 2
  THEN populate(rows, alias, twoHopChildRows(c, instructions),
                instructions[1].parentKey, instructions[2].childKey,
                instructions[2].parentKey)
  ELSE populate(rows, alias, oneHopChildRows(c, instructions),
                instructions[1].parentKey, "??????", instructions[1].childKey)

\* eachAssociation(instructions, alias): the rows of `results` after it
eachAssociation(c, rows, instructions, alias) ==
  IF Len(instructions) = 2
  THEN populate(rows, alias, twoHopChildRows(c, instructions),
                instructions[1].parentKey, instructions[2].childKey,
                instructions[2].parentKey)
  ELSE IF Len(instructions) = 1
  THEN populate(rows, alias, oneHopChildRows(c, instructions),
                instructions[1].parentKey, "??????", instructions[1].childKey)
  ELSE rows

\* variant of parent: the parent of the last join instruction
parentOfLastInstruction == joinInstructions.v[Len(joinInstructions.v)].parent.v

\* the name of the parent table: joinInstructions[0].parent
parent == joinInstructions.v[1].parent.v

\* the argument checks, and the set-up of `results`
IntegrateValidate ==
  /\ ipc = "start"
  /\ IF invalid(cache, joinInstructions)
     THEN /\ ipc' = "ended"
          /\ outcome' = "error"
          /\ cbCalls' = cbCalls + 1
          /\ UNCHANGED <<groups, gi, results>>
     ELSE IF parentAttributeNamesThrows(cache, joinInstructions)
     THEN /\ ipc' = "ended"
          /\ outcome' = "thrown"
          /\ UNCHANGED <<groups, gi, results, cbCalls>>
     ELSE /\ ipc' = "each"
          /\ results' = parent
          /\ groups' = groupBy(joinInstructions.v, <<>>)
          /\ gi' = 1
          /\ UNCHANGED <<outcome, cbCalls>>
  /\ UNCHANGED <<cache, cache0, joinInstructions>>
  /\ UNCHANGED forgeVars

\* one turn of the _.each() over the groups
EachAssociation ==
  /\ ipc = "each"
  /\ gi <= Len(groups)
  /\ cache' = [cache EXCEPT !.tables[results] =
                 Arr(eachAssociation(cache, @.v, groups[gi].instructions,
                                     groups[gi].alias))]
  /\ gi' = gi + 1
  /\ UNCHANGED <<cache0, joinInstructions, ipc, groups, outcome, results, cbCalls>>
  /\ UNCHANGED forgeVars

\* return cb(null, results)
IntegrateCallback ==
  /\ ipc = "each"
  /\ gi > Len(groups)
  /\ ipc' = "ended"
  /\ outcome' = "results"
  /\ cbCalls' = cbCalls + 1
  /\ UNCHANGED <<cache, cache0, joinInstructions, groups, gi, results>>
  /\ UNCHANGED forgeVars

(***************************************************************************)
(* The stage 1 queries the forge is run on.                                *)
(***************************************************************************)
\* the most clauses a criteria dictionary of the inputs specifies
MaxClauses == 2

\* the most rows a table of the cache holds
MaxRows == 2

BlankQuery == [k \in TopLevelKeys |-> Undefined]

Meta(typeSafety) == [t |-> "dict", typeSafety |-> typeSafety]

Query(meta, using, method) ==
  [BlankQuery EXCEPT !.meta = meta, !.using = using, !.method = method]

BaseQuery(m) == Query(Undefined, Str("user"), Str(m))

MetaInputs == {Undefined, Null, Meta(Undefined), Meta(Str("")), Str("x"), Arr(<<>>), Fn}

UsingInputs == {Undefined, Str(""), Str("user"), Str("pet"), Str("ghost"), Num(1)}

MethodInputs ==
  {Undefined, Str(""), Str("frobnicate"), Str("findOrCreateEach"), Num(1)}
  \cup {Str(m) : m \in SupportedMethods}

\* queries with nothing but the universal keys
UniversalInputs ==
  {Query(me, u, m) : me \in MetaInputs, u \in UsingInputs, m \in MethodInputs}

QueryKeyNames == TopLevelKeys \ {"meta", "using", "method"}

\* {} as the value of a key
EmptyDict(k) ==
  CASE k = "criteria" -> EmptyCriteria
    [] k = "newRecord" -> Rec(Undefined, Undefined)
    [] OTHER -> Dict(<<>>)

SampleValues(k) == {True, Str("pets"), EmptyDict(k), Fn}

\* a value the block of the key accepts
TypicalValue(k) ==
  CASE k = "criteria" -> Criteria(WherePk, Undefined, Undefined, Undefined, Undefined, Undefined)
    [] k = "populates" -> Dict(<<[k |-> "pets", v |-> True]>>)
    [] k = "numericAttrName" -> Str("age")
    [] k \in {"eachRecordFn", "eachBatchFn"} -> Fn
    [] k = "newRecord" -> Rec(Str("a"), Num(3))
    [] k = "newRecords" -> Arr(<<Rec(Str("a"), Num(3))>>)
    [] k = "valuesToSet" -> Dict(<<[k |-> "age", v |-> Num(3)]>>)
    [] k = "targetRecordIds" -> Arr(<<Str("a")>>)
    [] k = "collectionAttrName" -> Str("pets")
    [] k = "associatedIds" -> Arr(<<Num(1)>>)
    [] OTHER -> True

\* every method with one query key of any value, or two of typical values
KeyInputs ==
  UNION {{[BaseQuery(m) EXCEPT ![k] = v] : m \in SupportedMethods, v \in SampleValues(k)} :
           k \in QueryKeyNames}
  \cup
  {[BaseQuery(m) EXCEPT ![k1] = TypicalValue(k1), ![k2] = TypicalValue(k2)] :
     m \in SupportedMethods, k1 \in QueryKeyNames, k2 \in QueryKeyNames}

WhereInputs ==
  {Undefined, WhereEmpty, WherePk, WhereNothing, WhereUnexpected, WhereOdd,
   WhereIrregular}

SortInputs ==
  {Undefined, Arr(<<>>), Str("mom ASC"), Str("age ASC"),
   Dict(<<[k |-> "pets", v |-> Num(-1)]>>),
   Dict(<<[k |-> "age", v |-> Num(1)]>>),
   Arr(<<Str("id DESC"), Dict(<<[k |-> "mom", v |-> Str("DESC")]>>)>>),
   Arr(<<Str("pets DESC")>>)}

SelectInputs == {Undefined, Arr(<<"*">>), Arr(<<"id">>), Arr(<<"id", "mom">>)}

OmitInputs == {Undefined, Arr(<<>>), Arr(<<"mom">>), Arr(<<"age", "pets">>), Arr(<<"ghost">>)}

ClauseNames == {"where", "limit", "skip", "sort", "select", "omit"}

\* the clauses a criteria dictionary specifies
specified(c) == {k \in ClauseNames : ~isUndefined(c[k])}

CriteriaDicts ==
  {c \in {Criteria(w, l, sk, so, se, o) :
            w \in WhereInputs, l \in {Undefined, Num(2)}, sk \in {Undefined, Num(1)},
            so \in SortInputs, se \in SelectInputs, o \in OmitInputs} :
     Cardinality(specified(c)) <= MaxClauses}

CriteriaInputs == CriteriaDicts \cup {False, Str("3"), Num(3), Fn, Arr(<<>>)}

CriteriaMethods == {m \in SupportedMethods : "criteria" \in queryKeys(m)}

\* a query of the method with the keys the method cannot do without
Minimal(m) ==
  CASE m = "stream" -> [BaseQuery(m) EXCEPT !.eachRecordFn = Fn]
    [] m \in {"sum", "avg"} -> [BaseQuery(m) EXCEPT !.numericAttrName = Str("age")]
    [] m \in {"create", "findOrCreate"} ->
         [BaseQuery(m) EXCEPT !.newRecord = Rec(Str("a"), Num(3))]
    [] m = "createEach" -> [BaseQuery(m) EXCEPT !.newRecords = Arr(<<Rec(Str("a"), Num(3))>>)]
    [] m = "update" ->
         [BaseQuery(m) EXCEPT !.valuesToSet = Dict(<<[k |-> "age", v |-> Num(3)]>>)]
    [] m \in {"addToCollection", "removeFromCollection", "replaceCollection"} ->
         [BaseQuery(m) EXCEPT !.targetRecordIds = Arr(<<Str("a")>>),
                              !.collectionAttrName = Str("pets"),
                              !.associatedIds = Arr(<<Num(1)>>)]
    [] OTHER -> BaseQuery(m)

\* every method with every criteria
CriteriaQueryInputs ==
  {[Minimal(m) EXCEPT !.criteria = c] : m \in SupportedMethods, c \in CriteriaInputs}

PopulateMethods == {m \in SupportedMethods : "populates" \in queryKeys(m)}

\* the criteria of the queries that populate: projections and sorts
PopulateCriteria ==
  {c \in CriteriaDicts :
     specified(c) \subseteq {"sort", "select", "omit"}
     /\ Cardinality(specified(c)) < MaxClauses}

PopulateNames == {"mom", "pets", "age", "ghost"}

Limit(n) == Criteria(Undefined, Num(n), Undefined, Undefined, Undefined, Undefined)

PopulateValues ==
  {Undefined, False, True, EmptyCriteria, Limit(2), Str("x"),
   Criteria(Undefined, Undefined, Undefined, Str("id DESC"), Undefined, Undefined),
   Criteria(Undefined, Undefined, Undefined, Str("id ASC"), Undefined, Undefined),
   Criteria(Undefined, Undefined, Undefined, Arr(<<>>), Undefined, Undefined),
   Criteria(WhereNothing, Undefined, Undefined, Undefined, Undefined, Undefined),
   Criteria(WhereIrregular, Undefined, Undefined, Undefined, Undefined, Undefined),
   Criteria(WhereUnexpected, Undefined, Undefined, Undefined, Undefined, Undefined)}

\* `populates` with one key
OnePopulate ==
  {Dict(<<[k |-> a, v |-> x]>>) : a \in PopulateNames, x \in PopulateValues}

\* `populates` with two keys
TwoPopulates ==
  {Dict(<<[k |-> a, v |-> x], [k |-> b, v |-> y]>>) :
     a \in PopulateNames, b \in PopulateNames \ {"ghost"},
     x \in {True, False, Limit(2)}, y \in {True, EmptyCriteria}}
  \ {Dict(<<[k |-> a, v |-> x], [k |-> a, v |-> y]>>) :
       a \in PopulateNames, x \in {True, False, Limit(2)}, y \in {True, EmptyCriteria}}

PopulatesInputs ==
  OnePopulate \cup TwoPopulates \cup {Dict(<<>>), True, Arr(<<>>), Fn, Str("pets")}

PopulateQueryInputs ==
  {[Minimal(m) EXCEPT !.criteria = c, !.populates = p] :
     m \in PopulateMethods, c \in PopulateCriteria \cup {Undefined}, p \in PopulatesInputs}

\* the queries also run with NODE_ENV set to 'production'
ProductionInputs ==
  {[Minimal(m) EXCEPT !.populates = p] : m \in PopulateMethods, p \in OnePopulate}

NumericInputs ==
  {[BaseQuery(m) EXCEPT !.numericAttrName = n] :
     m \in {"sum", "avg"},
     n \in {Undefined, Str(""), Str("age"), Str("id"), Str("mom"), Str("ghost"), Num(1)}}

IterateeInputs ==
  {[BaseQuery("stream") EXCEPT !.eachRecordFn = rf, !.eachBatchFn = bf] :
     rf \in {Undefined, Fn, Str("x")}, bf \in {Undefined, Fn, Str("x")}}

NewRecordValues ==
  {Undefined, Str("x"), Rec(Str("a"), Undefined), Rec(Num(1), Num(3)),
   Rec(Undefined, Num(3)), Rec(Fn, Undefined), Rec(Str("a"), Fn)}

NewRecordInputs ==
  {[Query(me, Str("user"), Str(m)) EXCEPT !.newRecord = r] :
     me \in {Undefined, Meta(Str(""))}, m \in {"create", "findOrCreate"},
     r \in NewRecordValues}

NewRecordsInputs ==
  {[Query(me, Str("user"), Str("createEach")) EXCEPT !.newRecords = rs] :
     me \in {Undefined, Meta(Str(""))},
     rs \in {Undefined, Str("x"), Arr(<<>>)}
            \cup {Arr(<<r>>) : r \in NewRecordValues}
            \cup {Arr(<<r1, r2>>) : r1 \in NewRecordValues \ {Undefined, Str("x")},
                                    r2 \in NewRecordValues \ {Undefined}}}

ValuesToSetValues == {Undefined, Null, Fn, Num(3), Str("x")}

ValuesToSetInputs ==
  {[Query(me, Str("user"), Str("update")) EXCEPT !.valuesToSet = x] :
     me \in {Undefined, Meta(Str(""))},
     x \in {Undefined, Fn, Arr(<<>>), Str("x"), Dict(<<>>)}
           \cup {Dict(<<[k |-> a, v |-> y]>>) : a \in {"id", "age", "ghost"},
                                                 y \in ValuesToSetValues}
           \cup {Dict(<<[k |-> "id", v |-> y1], [k |-> "age", v |-> y2]>>) :
                   y1 \in ValuesToSetValues, y2 \in ValuesToSetValues}}

PkInputs ==
  {Undefined, Str("a"), Num(1), Str(""), Arr(<<>>), Arr(<<Str("a"), Str("b")>>),
   Arr(<<Num(1), Num(2)>>), Arr(<<Str("a"), Num(1)>>), True}

CollectionInputs ==
  {[BaseQuery(m) EXCEPT !.targetRecordIds = ti, !.collectionAttrName = n,
                        !.associatedIds = ai] :
     m \in {"addToCollection", "removeFromCollection", "replaceCollection"},
     ti \in PkInputs, ai \in PkInputs,
     n \in {Undefined, Str("pets"), Str("mom"), Str("age"), Str("ghost"), Num(1)}}

\* integrate() is not running
IntegrateIdle ==
  /\ cache = Undefined
  /\ cache0 = Undefined
  /\ joinInstructions = Undefined
  /\ ipc = "idle"
  /\ groups = <<>>
  /\ gi = 0
  /\ outcome = "none"
  /\ results = ""
  /\ cbCalls = 0

Init ==
  /\ \/ query \in UniversalInputs
     \/ query \in KeyInputs
     \/ query \in CriteriaQueryInputs
     \/ query \in PopulateQueryInputs
     \/ query \in NumericInputs \cup IterateeInputs \cup NewRecordInputs \cup NewRecordsInputs
     \/ query \in ValuesToSetInputs \cup CollectionInputs
  /\ orig = query
  /\ pass = 1
  /\ pc = "meta"
  /\ err = NoError
  /\ calls = <<>>
  /\ popKeys = <<>>
  /\ popIdx = 0
  /\ production \in {p \in BOOLEAN : p => query \in ProductionInputs}
  /\ warned = {}
  /\ IntegrateIdle

Next ==
  \/ CheckMeta
  \/ CheckUsing
  \/ CheckMethod
  \/ CheckKeys
  \/ ForgeCriteria
  \/ ForgePopulates
  \/ PopulateEach
  \/ ForgeNumericAttrName
  \/ ForgeIteratee
  \/ ForgeNewRecord
  \/ ForgeNewRecords
  \/ ForgeValuesToSet
  \/ ForgeTargetRecordIds
  \/ ForgeCollectionAttrName
  \/ ForgeAssociatedIds

Spec == Init /\ [][Next]_vars

\* the caller hands the query forgeStageTwoQuery() returned to
\* forgeStageTwoQuery() once more
Reforge ==
  /\ pc = "done"
  /\ pass = 1
  /\ pass' = 2
  /\ orig' = query
  /\ pc' = "meta"
  /\ calls' = <<>>
  /\ popKeys' = <<>>
  /\ popIdx' = 0
  /\ UNCHANGED <<query, err, production, warned>>
  /\ UNCHANGED integVars

NextReforge ==
  \/ Next
  \/ Reforge

\* the forge, run on a stage 1 query and then on what it made of it
SpecReforge == Init /\ [][NextReforge]_vars

(***************************************************************************)
(* Properties of forgeStageTwoQuery().                                     *)
(***************************************************************************)
\* the query passes the checks of `meta`, `using` and `method`
passesUniversalChecks(q) ==
  /\ isUndefined(q.meta) \/ q.meta.t = "dict"
  /\ isString(q.using) /\ q.using.v \in {"user", "pet"}
  /\ isString(q.method) /\ q.method.v \in SupportedMethods

\* the criteria is a dictionary that specifies `select` or `omit`
specifiesProjection(c) ==
  c.t = "dict" /\ "e" \notin DOMAIN c /\ (~isUndefined(c.select) \/ ~isUndefined(c.omit))

\* the criteria is a dictionary that specifies `limit`
specifiesLimit(c) == c.t = "dict" /\ "e" \notin DOMAIN c /\ ~isUndefined(c.limit)

\* the populate key the loop is at, and its value
currentPopulate == popKeys[popIdx]

currentRhs == dictGet(query.populates, currentPopulate)

\* the loop is at a key that is not stripped
populating ==
  pc = "populateEach" /\ currentRhs # False /\ ~isUndefined(currentRhs)

\* C1: a query of a supported method that passes the checks of meta, using and
\* method and has a top-level key outside {meta, using, method} and the keys of
\* its method never gets past the key check, fails there with a consistency
\* violation, which carries no code, and up to then no normalizer has been called
\* and the query is as it was handed in.
C1_ExtraneousKeysRejected ==
  (/\ passesUniversalChecks(orig)
   /\ \E k \in TopLevelKeys :
        /\ ~isUndefined(orig[k])
        /\ k \notin {"meta", "using", "method"} \cup queryKeys(orig.method.v))
  => /\ pc \in {"meta", "using", "method", "keys", "failed"}
     /\ calls = <<>>
     /\ query = orig
     /\ pc = "failed" => err = ConsistencyViolation /\ err.kind # "usage"

C1_Witness ==
  /\ pc = "failed"
  /\ err = ConsistencyViolation
  /\ orig.method = Str("find")
  /\ orig.criteria = TypicalValue("criteria")
  /\ orig.newRecord = TypicalValue("newRecord")
  /\ query = orig
  /\ calls = <<>>

\* C2, as claimed: a query whose criteria specifies `select` or `omit`, of a
\* supported method other than find, findOne and stream, fails with
\* E_INVALID_CRITERIA.
C2_AsClaimed ==
  (/\ passesUniversalChecks(orig)
   /\ orig.method.v \notin {"find", "findOne", "stream"}
   /\ specifiesProjection(orig.criteria)
   /\ pc \in {"done", "failed"})
  => err = UsageError("E_INVALID_CRITERIA")

\* C2, amended: when the criteria block is reached with a criteria that specifies
\* `select` or `omit`, then for find, findOne and stream the projection check
\* passes (the block fails only on `limit` or if normalizeCriteria() does), and
\* for every other method that takes criteria
\* (count, sum, avg, findOrCreate, update, destroy) it fails with
\* E_INVALID_CRITERIA before normalizeCriteria() is called.
C2_ProjectionCompatibility ==
  [][(pc = "criteria" /\ specifiesProjection(query.criteria))
     => IF query.method.v \in {"find", "findOne", "stream"}
        THEN pc' = "failed" =>
               \/ /\ calls' = <<"normalizeCriteria">>
                  /\ ~normalizeCriteria(query.criteria, query.using.v).ok
               \/ /\ specifiesLimit(query.criteria)
                  /\ query.method.v = "findOne"
        ELSE /\ query.method.v \in {"count", "sum", "avg", "findOrCreate", "update", "destroy"}
             /\ pc' = "failed"
             /\ err' = UsageError("E_INVALID_CRITERIA")
             /\ calls' = <<>>]_vars

C2_Witness ==
  /\ pc = "failed"
  /\ err = UsageError("E_INVALID_CRITERIA")
  /\ calls = <<>>
  /\ orig.method = Str("update")
  /\ specifiesProjection(orig.criteria)
  /\ isUndefined(orig.criteria.limit)

\* C3: when the criteria block is reached with a criteria that specifies `limit`,
\* then for find, stream, sum, avg, update and destroy the limit check passes (the
\* block fails only on `select`/`omit` or if normalizeCriteria() does), and for
\* findOne, count and findOrCreate the block fails with E_INVALID_CRITERIA before
\* normalizeCriteria() is called.
C3_LimitCompatibility ==
  [][(pc = "criteria" /\ specifiesLimit(query.criteria))
     => IF query.method.v \in {"find", "stream", "sum", "avg", "update", "destroy"}
        THEN pc' = "failed" =>
               \/ /\ calls' = <<"normalizeCriteria">>
                  /\ ~normalizeCriteria(query.criteria, query.using.v).ok
               \/ /\ specifiesProjection(query.criteria)
                  /\ query.method.v \in {"sum", "avg", "update", "destroy"}
        ELSE /\ query.method.v \in {"findOne", "count", "findOrCreate"}
             /\ pc' = "failed"
             /\ err' = UsageError("E_INVALID_CRITERIA")
             /\ calls' = <<>>]_vars

C3_Witness ==
  /\ pc = "failed"
  /\ err = UsageError("E_INVALID_CRITERIA")
  /\ calls = <<>>
  /\ orig.method = Str("findOne")
  /\ specifiesLimit(orig.criteria)
  /\ ~specifiesProjection(orig.criteria)

\* C4: when the populates loop comes to a key whose value is neither false nor
\* undefined and that is listed in the normalized criteria.omit, the forge fails
\* with E_INVALID_POPULATES, whether the key is an association, another attribute
\* or no attribute of the model.
C4_PopulateOmitted ==
  [][(populating /\ currentPopulate \in Range(query.criteria.omit.v))
     => /\ query.method.v \in {"find", "findOne", "stream"}
        /\ pc' = "failed"
        /\ err' = UsageError("E_INVALID_POPULATES")]_vars

C4_Witness ==
  /\ pc = "failed"
  /\ err = UsageError("E_INVALID_POPULATES")
  /\ popKeys = <<"ghost">>
  /\ dictGet(orig.populates, "ghost") = True
  /\ query.criteria.omit = Arr(<<"ghost">>)
  /\ ~getAttribute("ghost", orig.using.v).registered

\* the loop is at a singular association, past the checks of `omit` and `sort`
populatingSingular ==
  /\ populating
  /\ currentPopulate \notin Range(query.criteria.omit.v)
  /\ \A i \in 1..Len(query.criteria.sort.v) : query.criteria.sort.v[i].attr # currentPopulate
  /\ getAttribute(currentPopulate, query.using.v).registered
  /\ getAttribute(currentPopulate, query.using.v).model # ""

\* C5: when the populates loop comes to a singular association, a value of {} or
\* true is taken and the query then holds true for the key; any other value
\* fails with E_INVALID_POPULATES.
C5_SingularPopulate ==
  [][populatingSingular
     => IF currentRhs \in {EmptyCriteria, True}
        THEN /\ pc' # "failed"
             /\ dictGet(query'.populates, currentPopulate) = True
        ELSE /\ pc' = "failed"
             /\ err' = UsageError("E_INVALID_POPULATES")]_vars

C5_Witness ==
  /\ pc = "done"
  /\ popKeys = <<"mom">>
  /\ dictGet(orig.populates, "mom") = EmptyCriteria
  /\ dictGet(query.populates, "mom") = True

\* C6: when the populates loop comes to a key whose value is neither false nor
\* undefined and that is a sort key of the normalized criteria.sort, the forge
\* fails with E_INVALID_POPULATES, whichever way the sort clause was written.
C6_PopulateSorted ==
  [][(populating
      /\ \E i \in 1..Len(query.criteria.sort.v) :
           query.criteria.sort.v[i].attr = currentPopulate)
     => /\ pc' = "failed"
        /\ err' = UsageError("E_INVALID_POPULATES")]_vars

C6_Witness ==
  /\ pc = "failed"
  /\ err = UsageError("E_INVALID_POPULATES")
  /\ popKeys = <<"mom">>
  /\ orig.criteria.t = "dict"
  /\ orig.criteria.sort = Arr(<<Str("id DESC"), Dict(<<[k |-> "mom", v |-> Str("DESC")]>>)>>)
  /\ dictGet(orig.populates, "mom") = True

(***************************************************************************)
(* The caches and join instructions integrate() is run on.                 *)
(***************************************************************************)
Ids == 1..MaxRows

UserRows == {[id |-> i] : i \in Ids}

PetRows == {[id |-> i, userId |-> u] : i \in Ids, u \in Ids}

JunctionRows == {[user_id |-> u, pet_id |-> p] : u \in Ids, p \in Ids}

\* the sequences over S of at most n elements
SeqsUpTo(S, n) == UNION {[1..k -> S] : k \in 0..n}

\* `id` is the primary key of the table
distinctIds(rows) == \A i, j \in 1..Len(rows) : rows[i].id = rows[j].id => i = j

UserTables == {us \in SeqsUpTo(UserRows, MaxRows) : distinctIds(us)}

PetTables == {ps \in SeqsUpTo(PetRows, MaxRows) : distinctIds(ps)}

\* the pets 1, 2, ... of user 1
PetsInOrder(n) == [i \in 1..n |-> [id |-> i, userId |-> 1]]

\* a cache: a dictionary of tables
Cache(tables) == [t |-> "dict", tables |-> tables]

\* user has many pets, by pet.userId
OneHop == <<Instruction("pets", Str("user"), "pet", "id", "userId")>>

\* user has many pets, through the junction table user_pets
TwoHop ==
  <<Instruction("pets", Str("user"), "user_pets", "id", "user_id"),
    Instruction("pets", Str("user_pets"), "pet", "pet_id", "id")>>

\* two associations, the instructions of the second around those of the first
TwoAliases ==
  <<Instruction("cats", Str("user"), "user_pets", "id", "user_id"),
    Instruction("pets", Str("user"), "pet", "id", "userId"),
    Instruction("cats", Str("user_pets"), "pet", "pet_id", "id")>>

\* three instructions of one alias
ThreeOfOneAlias ==
  <<Instruction("pets", Str("user"), "pet", "id", "userId"),
    Instruction("pets", Str("user"), "pet", "id", "userId"),
    Instruction("pets", Str("user"), "pet", "id", "userId")>>

\* three instructions of one alias around one instruction of another
ThreeAndOne ==
  <<Instruction("pets", Str("user"), "pet", "id", "userId"),
    Instruction("cats", Str("user"), "pet", "id", "userId"),
    Instruction("pets", Str("user"), "pet", "id", "userId"),
    Instruction("pets", Str("user"), "pet", "id", "userId")>>

OneHopInputs ==
  {<<Cache([user |-> Arr(us), pet |-> Arr(ps)]), Arr(OneHop)>> :
     us \in UserTables, ps \in PetTables}

TwoHopInputs ==
  {<<Cache([user |-> Arr(us), pet |-> Arr(ps), user_pets |-> Arr(js)]), Arr(TwoHop)>> :
     us \in UserTables,
     ps \in {PetsInOrder(n) : n \in 0..MaxRows},
     js \in SeqsUpTo(JunctionRows, MaxRows)}

ManyInputs ==
  {<<Cache([user |-> Arr(us), pet |-> Arr(PetsInOrder(MaxRows)),
            user_pets |-> Arr(js)]), Arr(ji)>> :
     us \in UserTables, js \in SeqsUpTo(JunctionRows, 1),
     ji \in {TwoAliases, ThreeOfOneAlias, ThreeAndOne}}

\* a table that is a dictionary, not an array of rows
TableDict == [t |-> "dict"]

OddCaches ==
  {Undefined, Null, Str("x"), Num(1),
   Cache([pet |-> Arr(<<>>)]),
   Cache([user |-> Undefined, pet |-> Arr(<<>>)]),
   Cache([user |-> Str("x"), pet |-> Arr(<<>>)]),
   Cache([user |-> TableDict, pet |-> Arr(<<>>)]),
   Cache([user |-> Arr(<<[id |-> 1]>>), pet |-> Arr(<<[id |-> 1, userId |-> 1]>>)])}

OddInstructions ==
  {Undefined, Null, Str("x"), Arr(<<>>), Arr(<<Num(5)>>), Arr(<<Str("x")>>),
   Arr(<<Instruction("pets", Undefined, "pet", "id", "userId")>>),
   Arr(<<Instruction("pets", Num(1), "pet", "id", "userId")>>),
   Arr(<<Instruction("pets", Str("ghost"), "pet", "id", "userId")>>),
   Arr(OneHop)}

OddInputs == {<<c, ji>> : c \in OddCaches, ji \in OddInstructions}

\* forgeStageTwoQuery() is not running
ForgeIdle ==
  /\ query = BlankQuery
  /\ orig = BlankQuery
  /\ pass = 0
  /\ pc = "idle"
  /\ err = NoError
  /\ calls = <<>>
  /\ popKeys = <<>>
  /\ popIdx = 0
  /\ production = FALSE
  /\ warned = {}

InitIntegrate ==
  /\ \E input \in OneHopInputs \cup TwoHopInputs \cup ManyInputs \cup OddInputs :
       /\ cache = input[1]
       /\ joinInstructions = input[2]
  /\ cache0 = cache
  /\ ipc = "start"
  /\ groups = <<>>
  /\ gi = 0
  /\ outcome = "none"
  /\ results = ""
  /\ cbCalls = 0
  /\ ForgeIdle

NextIntegrate ==
  \/ IntegrateValidate
  \/ EachAssociation
  \/ IntegrateCallback

SpecIntegrate == InitIntegrate /\ [][NextIntegrate]_vars

(***************************************************************************)
(* Properties of integrate().                                              *)
(***************************************************************************)
\* the rows of `pets` with the userId, in their order
petsOfUser(pets, id) ==
  LET owned(p) == p.userId = id IN SelectSeq(pets, owned)

\* C7: with the one instruction {alias pets, parent user, child pet, parentKey
\* id, childKey userId}, integrate() hands the callback the user rows of the
\* cache, each with the key `pets` holding exactly the pet rows whose userId is
\* the user's id, in the order of the pet table: the empty array when there is
\* none.
C7_OneHopPopulate ==
  (outcome = "results" /\ joinInstructions = Arr(OneHop))
  => LET users == cache.tables.user.v
         users0 == cache0.tables.user.v
         pets == cache0.tables.pet.v
     IN /\ Len(users) = Len(users0)
        /\ \A i \in 1..Len(users) :
             /\ users[i].id = users0[i].id
             /\ "pets" \in DOMAIN users[i]
             /\ users[i].pets = petsOfUser(pets, users0[i].id)

C7_Witness ==
  /\ outcome = "results"
  /\ joinInstructions = Arr(OneHop)
  /\ cache0.tables.user = Arr(<<[id |-> 1], [id |-> 2]>>)
  /\ cache0.tables.pet = Arr(<<[id |-> 2, userId |-> 1], [id |-> 1, userId |-> 1]>>)
  /\ cache.tables.user.v[1].pets = <<[id |-> 2, userId |-> 1], [id |-> 1, userId |-> 1]>>
  /\ cache.tables.user.v[2].pets = <<>>

\* C8: with two instructions of one alias (user to the junction table, the
\* junction table to pet), every pet row integrate() puts under the alias of a
\* user row is linked to that user by a row of the junction table: a pet the
\* junction table links to other users only is not there.
C8_TwoHopPopulate ==
  (outcome = "results" /\ joinInstructions = Arr(TwoHop))
  => LET users == cache.tables.user.v
         junction == cache0.tables.user_pets.v
     IN \A i \in 1..Len(users) :
          /\ "pets" \in DOMAIN users[i]
          /\ \A k \in 1..Len(users[i].pets) :
               \E j \in 1..Len(junction) :
                 /\ junction[j].user_id = users[i].id
                 /\ junction[j].pet_id = users[i].pets[k].id

C8_Witness ==
  /\ outcome = "results"
  /\ joinInstructions = Arr(TwoHop)
  /\ cache0.tables.user = Arr(<<[id |-> 1], [id |-> 2]>>)
  /\ cache0.tables.pet = Arr(PetsInOrder(2))
  /\ cache0.tables.user_pets = Arr(<<[user_id |-> 2, pet_id |-> 1], [user_id |-> 1, pet_id |-> 2]>>)
  /\ cache.tables.user.v[1].pets = <<[id |-> 2, userId |-> 1]>>
  /\ cache.tables.user.v[2].pets = <<[id |-> 1, userId |-> 1]>>

\* a row cache: every table is an array of rows
isRowCache(c) ==
  c.t = "dict" /\ \A name \in DOMAIN c.tables : c.tables[name].t = "array"

\* C9: integrate() never throws: whatever the row cache and the instructions, a
\* parent table with no rows included, it ends by calling the callback once.
C9_NeverThrows ==
  isRowCache(cache0)
  => /\ outcome # "thrown"
     /\ ipc = "ended" => cbCalls = 1

\* the arguments C10 is about: the cache is no dictionary, the instructions are
\* no non-empty array of dictionaries, or the first instruction's parent names no
\* table of the cache that is an array
invalidArguments ==
  \/ cache0.t # "dict"
  \/ joinInstructions.t # "array"
  \/ joinInstructions.v = <<>>
  \/ \E i \in 1..Len(joinInstructions.v) : joinInstructions.v[i].t # "dict"
  \/ joinInstructions.v[1].parent.t # "string"
  \/ joinInstructions.v[1].parent.v \notin DOMAIN cache0.tables
  \/ cache0.tables[joinInstructions.v[1].parent.v].t # "array"

\* C10: with such arguments integrate() ends by handing the callback an error,
\* having joined nothing and left the cache as it was.
C10_InvalidArgumentsReported ==
  (ipc = "ended" /\ invalidArguments)
  => /\ outcome = "error"
     /\ cbCalls = 1
     /\ gi = 0
     /\ cache = cache0

\* C11: when integrate() succeeds, the array handed to the callback is the one
\* the cache holds for the first instruction's parent table: it has the rows
\* it had, in their order and number, every row keeps its columns and gains
\* alias keys only, and the cache holds the tables it held, the others as
\* they were.
C11_ResultsIsParentTable ==
  LET p == joinInstructions.v[1].parent.v
      aliases == {joinInstructions.v[i].alias : i \in 1..Len(joinInstructions.v)}
  IN /\ ipc = "each" => results = p
     /\ outcome = "results" =>
          LET before == cache0.tables[p].v
              after == cache.tables[results].v
          IN /\ results = p
             /\ Len(after) = Len(before)
             /\ \A i \in 1..Len(before) :
                  /\ DOMAIN before[i] \subseteq DOMAIN after[i]
                  /\ (DOMAIN after[i] \ DOMAIN before[i]) \subseteq aliases
                  /\ \A k \in DOMAIN before[i] : after[i][k] = before[i][k]
             /\ DOMAIN cache.tables = DOMAIN cache0.tables
             /\ \A n \in DOMAIN cache.tables \ {p} : cache.tables[n] = cache0.tables[n]

\* integrate() succeeded along the junction table and gave the second of two
\* users a pet
C11_Witness ==
  /\ outcome = "results"
  /\ joinInstructions = Arr(TwoHop)
  /\ results = "user"
  /\ Len(cache.tables["user"].v) = 2
  /\ cache.tables["user"].v[1].pets = <<>>
  /\ cache.tables["user"].v[2].pets # <<>>
  /\ cache.tables["user"] # cache0.tables["user"]

\* C12: no error the forge throws carries a code of a delegate: a failed
\* forging ends with one of the eleven usage codes or with an error that has
\* no code.
C12_DelegateCodesReclassified ==
  pc = "failed" => (err.code \in UsageCodes \/ err.code = "")

\* the block that forges a query key
blockOfKey(k) == IF k \in {"eachRecordFn", "eachBatchFn"} THEN "iteratee" ELSE k

\* the position of the forge among its blocks; 0 in the checks before them
blockIndexAt(p) ==
  IF p \in {"meta", "using", "method", "keys"} THEN 0
  ELSE IF p = "populateEach" THEN stageIndex("populates")
  ELSE stageIndex(p)

\* C13 as it reads: whenever the forge fails, every field of the query is as
\* it was handed in.
C13_AsClaimed == pc = "failed" => query = orig

\* C13: when the forge fails in the check of meta, using, method or the keys,
\* the query is as it was handed in; when it fails in a block, meta, using and
\* method and every field whose block comes later are as they were handed in
\* (the fields of this block and of the earlier ones may have been forged).
C13_FailureLeavesLaterFields ==
  [][pc' = "failed" =>
       /\ blockIndexAt(pc) = 0 => query' = orig
       /\ \A k \in {"meta", "using", "method"} : query'[k] = orig[k]
       /\ \A k \in UNION {queryKeys(m) : m \in SupportedMethods} :
            stageIndex(blockOfKey(k)) > blockIndexAt(pc) => query'[k] = orig[k]]_vars

\* a stream query failed in the populates block, after its criteria was
\* normalized and with its iteratee untouched
C13_Witness ==
  /\ pc = "failed"
  /\ err = UsageError("E_INVALID_POPULATES")
  /\ orig.method = Str("stream")
  /\ query.criteria # orig.criteria
  /\ ~isUndefined(query.eachRecordFn)
  /\ query.eachRecordFn = orig.eachRecordFn

\* the forge returned a query of a method that takes a criteria
forgedWithCriteria == pc = "done" /\ "criteria" \in queryKeys(query.method.v)

\* C14 as it reads: in a forged query criteria.limit is there only for find,
\* stream, sum, avg, update and destroy, and criteria.select and criteria.omit
\* only for find, findOne and stream.
C14_AsClaimed ==
  forgedWithCriteria =>
    /\ ~isUndefined(query.criteria.limit) =>
         query.method.v \in {"find", "stream", "sum", "avg", "update", "destroy"}
    /\ (~isUndefined(query.criteria.select) \/ ~isUndefined(query.criteria.omit)) =>
         query.method.v \in {"find", "findOne", "stream"}

\* C14: in a forged query of a method that takes a criteria, the criteria
\* handed in specified `limit` only for find, stream, sum, avg, update and
\* destroy, and `select` or `omit` only for find, findOne and stream; the
\* forged criteria has where, limit, skip and sort whatever the method is.
C14_SpecifiedClausesCompatible ==
  forgedWithCriteria =>
    /\ specifiesLimit(orig.criteria) =>
         query.method.v \in {"find", "stream", "sum", "avg", "update", "destroy"}
    /\ specifiesProjection(orig.criteria) =>
         query.method.v \in {"find", "findOne", "stream"}
    /\ \A clause \in {"where", "limit", "skip", "sort"} :
         ~isUndefined(query.criteria[clause])

\* a forged count query: its criteria has the limit the normalizer filled in
C14_Witness ==
  /\ forgedWithCriteria
  /\ query.method = Str("count")
  /\ orig.criteria.t = "dict"
  /\ ~specifiesLimit(orig.criteria)
  /\ query.criteria.limit = MAX_SAFE_INTEGER

\* the second call is over, and it was handed a criteria with the limit and the
\* select the normalizer fills in when the caller gave none
reforgedDefaults ==
  /\ pass = 2
  /\ pc \in {"done", "failed"}
  /\ "criteria" \in queryKeys(orig.method.v)
  /\ orig.criteria.limit = MAX_SAFE_INTEGER
  /\ orig.criteria.select = Arr(<<"*">>)

\* C15 as it reads: for every method that takes a criteria, forging what the
\* forge made of a query without limit and select succeeds and changes nothing.
C15_AsClaimed == reforgedDefaults => (pc = "done" /\ query = orig)

\* C15: for find and stream, forging what the forge made of a query without
\* limit and select succeeds and changes nothing.
C15_ReforgeIsIdentity ==
  (reforgedDefaults /\ orig.method.v \in {"find", "stream"})
    => (pc = "done" /\ query = orig)

\* a find with a populate went through the forge twice
C15_Witness ==
  /\ reforgedDefaults
  /\ orig.method = Str("find")
  /\ pc = "done"
  /\ calls = <<"normalizeCriteria", "normalizeCriteria">>

\* C16: a query whose meta is there and is no plain dictionary fails with
\* E_INVALID_META whatever its method is, in the first check: using and method
\* are not looked at (they may be missing or unknown), no normalizer is called
\* and the query is left as it was.
C16_InvalidMetaFirst ==
  (~isUndefined(orig.meta) /\ orig.meta.t # "dict") =>
    /\ pc \in {"meta", "failed"}
    /\ pc = "failed" =>
         /\ err = UsageError("E_INVALID_META")
         /\ calls = <<>>
         /\ query = orig

\* an array as meta, with no using and an unknown method
C16_Witness ==
  /\ pc = "failed"
  /\ err = UsageError("E_INVALID_META")
  /\ orig.meta = Arr(<<>>)
  /\ isUndefined(orig.using)
  /\ orig.method = Str("frobnicate")

\* `using` is no non-empty string, or names no model of the orm
usingRejected(u) == ~isString(u) \/ u.v = "" \/ u.v \notin DOMAIN Ontology

\* `method` is no non-empty string, or is none of the fourteen method names
methodRejected(x) ==
  \/ ~isString(x)
  \/ x.v = ""
  \/ x.v \notin {"find", "findOne", "stream", "count", "sum", "avg", "create",
                "createEach", "findOrCreate", "update", "destroy",
                "addToCollection", "removeFromCollection", "replaceCollection"}

\* C17: when the forge comes to the check of `using` with a using that is no
\* non-empty string or names no registered model, or to the check of `method`
\* with a method that is no non-empty string or none of the fourteen names,
\* it fails there with a consistency violation, which carries none of the
\* eleven usage codes, and leaves the query alone.
C17_UsingAndMethodFatal ==
  [][((pc = "using" /\ usingRejected(query.using))
      \/ (pc = "method" /\ methodRejected(query.method)))
     => /\ pc' = "failed"
        /\ err'.kind = "fatal"
        /\ err'.code \notin UsageCodes
        /\ query' = query]_vars

\* a registered model and an unknown method
C17_Witness ==
  /\ pc = "failed"
  /\ err = ConsistencyViolation
  /\ orig.using = Str("pet")
  /\ orig.method = Str("findOrCreateEach")

\* the codes of normalizeNewRecord() that stand for a bad record
NewRecordCodes == {"E_INVALID", "E_MISSING_REQUIRED", "E_HIGHLY_IRREGULAR"}

\* what normalizeNewRecord() makes of record i of query.newRecords
newRecordResult(i) ==
  normalizeNewRecord(query.newRecords.v[i], query.using.v, ensureTypeSafety(query))

\* C18: when the newRecord block (create, findOrCreate) is reached and the
\* normalizer fails with E_INVALID, E_MISSING_REQUIRED or E_HIGHLY_IRREGULAR,
\* the forge fails with the usage error E_INVALID_NEW_RECORD; when the
\* newRecords block (createEach) is reached and newRecords is missing or no
\* array, or the first record the normalizer fails on fails with one of the
\* three codes, the forge fails with the usage error E_INVALID_NEW_RECORDS.
C18_NewRecordUsageErrors ==
  [][/\ (/\ pc = "newRecord"
         /\ normalizeNewRecord(query.newRecord, query.using.v,
                               ensureTypeSafety(query)).code \in NewRecordCodes)
        => (pc' = "failed" /\ err' = UsageError("E_INVALID_NEW_RECORD"))
     /\ (pc = "newRecords" /\ ~isArray(query.newRecords))
        => (pc' = "failed" /\ err' = UsageError("E_INVALID_NEW_RECORDS"))
     /\ (/\ pc = "newRecords"
         /\ isArray(query.newRecords)
         /\ \E i \in 1..Len(query.newRecords.v) :
              /\ newRecordResult(i).code \in NewRecordCodes
              /\ \A j \in 1..(i - 1) : newRecordResult(j).ok)
        => (pc' = "failed" /\ err' = UsageError("E_INVALID_NEW_RECORDS"))]_vars

\* createEach with a second record that has no id
C18_Witness ==
  /\ pc = "failed"
  /\ err = UsageError("E_INVALID_NEW_RECORDS")
  /\ orig.method = Str("createEach")
  /\ orig.newRecords = Arr(<<Rec(Str("a"), Undefined), Rec(Undefined, Num(3))>>)
  /\ calls = <<"normalizeNewRecord", "normalizeNewRecord">>

\* the iteratee keys of the query that are defined
definedIteratees == {k \in {"eachRecordFn", "eachBatchFn"} : ~isUndefined(query[k])}

\* C19: the iteratee check of a stream query passes, leaving the query as it
\* is, if and only if exactly one of eachRecordFn and eachBatchFn is defined
\* and that one is a function; with both defined, none defined, or the one
\* defined not a function it fails with E_INVALID_STREAM_ITERATEE.
C19_ExactlyOneIteratee ==
  [][pc = "iteratee" =>
       IF /\ Cardinality(definedIteratees) = 1
          /\ \A k \in definedIteratees : isFunction(query[k])
       THEN pc' # "failed" /\ err' = NoError /\ query' = query
       ELSE pc' = "failed" /\ err' = UsageError("E_INVALID_STREAM_ITERATEE")]_vars

\* both iteratees were given, and both are functions
C19_Witness ==
  /\ pc = "failed"
  /\ err = UsageError("E_INVALID_STREAM_ITERATEE")
  /\ query.method = Str("stream")
  /\ query.eachRecordFn = Fn
  /\ query.eachBatchFn = Fn

\* the criteria the block starts from specifies a clause its method cannot take
clauseRejected ==
  \/ /\ specifiesProjection(query.criteria)
     /\ query.method.v \notin {"find", "findOne", "stream"}
  \/ /\ specifiesLimit(query.criteria)
     /\ query.method.v \notin {"find", "stream", "sum", "avg", "update", "destroy"}

\* C20: the checks of select/omit and of limit look at the criteria as it was
\* handed in, before the normalizer runs: a query that fails one of them
\* fails with the normalizer never called, and every other query goes to the
\* normalizer and fails in the block only if the normalizer itself fails, so
\* the limit and select the normalizer fills in are never rejected.
C20_ChecksBeforeNormalizer ==
  [][pc = "criteria" =>
       IF clauseRejected
       THEN /\ pc' = "failed"
            /\ err' = UsageError("E_INVALID_CRITERIA")
            /\ calls' = calls
            /\ "normalizeCriteria" \notin Range(calls')
       ELSE /\ calls' = Append(calls, "normalizeCriteria")
            /\ pc' = "failed" <=>
                 ~normalizeCriteria(IF isUndefined(query.criteria) THEN EmptyCriteria
                                    ELSE query.criteria, query.using.v).ok
            /\ pc' # "failed" =>
                 /\ query'.criteria.limit # Undefined
                 /\ query'.criteria.select # Undefined]_vars

\* a count query with no criteria came through: the normalizer ran once and
\* left its limit and select in the criteria
C20_Witness ==
  /\ pc = "done"
  /\ query.method = Str("count")
  /\ isUndefined(orig.criteria)
  /\ calls = <<"normalizeCriteria">>
  /\ query.criteria.limit = MAX_SAFE_INTEGER
  /\ query.criteria.select = Arr(<<"*">>)

\* what normalizeCriteria() makes of the criteria the block starts from
primaryCriteriaResult ==
  normalizeCriteria(IF isUndefined(query.criteria) THEN EmptyCriteria
                    ELSE query.criteria, query.using.v)

\* C21: when the criteria block calls the normalizer on the primary criteria
\* and it fails, the forge fails with the usage error E_INVALID_CRITERIA if
\* the normalizer's code is E_HIGHLY_IRREGULAR, and with a consistency
\* violation that has no code if it is E_WOULD_RESULT_IN_NOTHING, any other
\* code or no code; the normalizer's code is never the code of the error.
C21_CriteriaFailureReclassified ==
  [][(pc = "criteria" /\ ~clauseRejected /\ ~primaryCriteriaResult.ok) =>
       /\ pc' = "failed"
       /\ calls' = Append(calls, "normalizeCriteria")
       /\ err' = IF primaryCriteriaResult.code = "E_HIGHLY_IRREGULAR"
                 THEN UsageError("E_INVALID_CRITERIA")
                 ELSE [kind |-> "fatal", code |-> ""]
       /\ err'.code \notin
            {"E_HIGHLY_IRREGULAR", "E_WOULD_RESULT_IN_NOTHING", "E_UNRECOGNIZED"}]_vars

\* the normalizer failed on the primary criteria with a code the forge does
\* not know, and the forge threw a consistency violation
C21_Witness ==
  /\ pc = "failed"
  /\ err = ConsistencyViolation
  /\ calls = <<"normalizeCriteria">>
  /\ orig.criteria.t = "dict"
  /\ orig.criteria.where = WhereOdd

\* the attributes declared with type 'number', each with its model
NumberAttributes == {<<"user", "age">>, <<"pet", "id">>}

\* C22: when the numericAttrName block (sum, avg) is reached with a
\* numericAttrName that is missing, not a string, the empty string, the name
\* of no attribute of the model or the name of an attribute whose type is not
\* 'number', the forge fails with the usage error E_INVALID_NUMERIC_ATTR_NAME;
\* with the name of a number attribute the block passes and changes nothing.
C22_NumericAttrName ==
  [][pc = "numericAttrName" =>
       /\ query.method.v \in {"sum", "avg"}
       /\ IF isString(query.numericAttrName)
             /\ <<query.using.v, query.numericAttrName.v>> \in NumberAttributes
          THEN pc' # "failed" /\ err' = NoError /\ query' = query
          ELSE pc' = "failed" /\ err' = UsageError("E_INVALID_NUMERIC_ATTR_NAME")]_vars

\* sum over `id`, an attribute of type 'string'
C22_Witness ==
  /\ pc = "failed"
  /\ err = UsageError("E_INVALID_NUMERIC_ATTR_NAME")
  /\ query.method = Str("sum")
  /\ query.numericAttrName = Str("id")
  /\ calls = <<"normalizeCriteria">>

\* what normalizeValueToSet() makes of the value under key k of valuesToSet
valueToSetResult(k) ==
  normalizeValueToSet(dictGet(query.valuesToSet, k), k, query.using.v,
                      ensureTypeSafety(query))

\* valuesToSet is a dictionary in the sense of the block's first check
isValuesToSetDictionary == query.valuesToSet.t = "dict"

\* C23: when the valuesToSet block (update) is reached: a valuesToSet that is
\* missing, an array, a function or no object fails with the usage error
\* E_INVALID_VALUES_TO_SET; so does a dictionary in which the first key the
\* normalizer rejects is rejected with E_HIGHLY_IRREGULAR or E_INVALID; and
\* when the normalizer accepts or ignores every key the block passes, leaving
\* in valuesToSet exactly the keys that were not ignored (E_SHOULD_BE_IGNORED),
\* in their order, each with its normalized value.
C23_ValuesToSet ==
  [][pc = "valuesToSet" =>
       /\ query.method.v = "update"
       /\ ~isValuesToSetDictionary =>
            (pc' = "failed" /\ err' = UsageError("E_INVALID_VALUES_TO_SET"))
       /\ isValuesToSetDictionary =>
            LET ks == dictKeys(query.valuesToSet)
                stops == {i \in 1..Len(ks) :
                            /\ ~valueToSetResult(ks[i]).ok
                            /\ valueToSetResult(ks[i]).code # "E_SHOULD_BE_IGNORED"}
                kept == {i \in 1..Len(ks) : valueToSetResult(ks[i]).ok}
            IN /\ (\E i \in stops :
                     /\ \A j \in stops : i <= j
                     /\ valueToSetResult(ks[i]).code \in {"E_HIGHLY_IRREGULAR", "E_INVALID"})
                  => (pc' = "failed" /\ err' = UsageError("E_INVALID_VALUES_TO_SET"))
               /\ stops = {} =>
                    /\ pc' # "failed"
                    /\ err' = NoError
                    /\ Range(dictKeys(query'.valuesToSet)) = {ks[i] : i \in kept}
                    /\ Len(dictKeys(query'.valuesToSet)) = Cardinality(kept)
                    /\ \A i, j \in kept :
                         i < j => \E a, b \in 1..Len(query'.valuesToSet.e) :
                                    /\ a < b
                                    /\ query'.valuesToSet.e[a].k = ks[i]
                                    /\ query'.valuesToSet.e[b].k = ks[j]
                    /\ \A i \in kept :
                         dictGet(query'.valuesToSet, ks[i]) = valueToSetResult(ks[i]).value]_vars

\* an update that sets id to undefined and age to 3: id is dropped, age stays
C23_Witness ==
  /\ pc = "done"
  /\ query.method = Str("update")
  /\ orig.valuesToSet = Dict(<<[k |-> "id", v |-> Undefined], [k |-> "age", v |-> Num(3)]>>)
  /\ query.valuesToSet = Dict(<<[k |-> "age", v |-> Num(3)]>>)
  /\ calls = <<"normalizeCriteria", "normalizeValueToSet", "normalizeValueToSet">>

\* the declared type of the primary key of each model
PkTypes == [user |-> "string", pet |-> "number"]

\* the model a collection attribute of the queried model leads to
AssociatedModels == [user |-> [pets |-> "pet"]]

\* C24: when the targetRecordIds block of a collection method is reached, the
\* value is normalized against the type of the queried model's primary key:
\* a mismatch fails with E_INVALID_TARGET_RECORD_IDS, otherwise the field
\* becomes the array of the values, a single value included. When the
\* associatedIds block is reached, the value is normalized against the type
\* of the primary key of the model collectionAttrName leads to: a mismatch
\* fails with E_INVALID_ASSOCIATED_IDS, otherwise the field becomes the array
\* of the values. No other field changes.
C24_PkValuesNormalized ==
  [][/\ pc = "targetRecordIds" =>
          LET r == normalizePkValues(query.targetRecordIds, PkTypes[query.using.v])
          IN /\ query.method.v \in
                  {"addToCollection", "removeFromCollection", "replaceCollection"}
             /\ IF r.ok
                THEN /\ pc' # "failed"
                     /\ isArray(query'.targetRecordIds)
                     /\ query' = [query EXCEPT !.targetRecordIds = r.value]
                ELSE /\ pc' = "failed"
                     /\ err' = UsageError("E_INVALID_TARGET_RECORD_IDS")
     /\ pc = "associatedIds" =>
          LET other == AssociatedModels[query.using.v][query.collectionAttrName.v]
              r == normalizePkValues(query.associatedIds, PkTypes[other])
          IN IF r.ok
             THEN /\ pc' = "done"
                  /\ isArray(query'.associatedIds)
                  /\ isArray(query'.targetRecordIds)
                  /\ query' = [query EXCEPT !.associatedIds = r.value]
             ELSE /\ pc' = "failed"
                  /\ err' = UsageError("E_INVALID_ASSOCIATED_IDS")]_vars

\* a single user id and a single pet id came out as arrays of one
C24_Witness ==
  /\ pc = "done"
  /\ orig.method = Str("addToCollection")
  /\ orig.targetRecordIds = Str("a")
  /\ query.targetRecordIds = Arr(<<Str("a")>>)
  /\ orig.associatedIds = Num(1)
  /\ query.associatedIds = Arr(<<Num(1)>>)

\* collectionAttrName is no string, or is not the name of a collection
\* association of the queried model
collectionAttrNameRejected ==
  \/ ~isString(query.collectionAttrName)
  \/ query.collectionAttrName.v \notin DOMAIN AssociatedModels[query.using.v]

\* C25: the collectionAttrName block comes before the associatedIds block:
\* reached (so with valid targetRecordIds) with a collectionAttrName that is
\* no string, names no attribute or names an attribute that is no collection
\* association, it fails with E_INVALID_COLLECTION_ATTR_NAME with no further
\* normalizer call and the query, associatedIds included, left as it is; and
\* the associatedIds block, where the associated model's primary key is
\* looked up, is entered only from a collectionAttrName block that passed.
C25_CollectionAttrNameFirst ==
  [][/\ (pc = "collectionAttrName" /\ collectionAttrNameRejected) =>
          /\ pc' = "failed"
          /\ err' = UsageError("E_INVALID_COLLECTION_ATTR_NAME")
          /\ calls' = calls
          /\ query' = query
          /\ query'.associatedIds = orig.associatedIds
     /\ pc' = "associatedIds" =>
          /\ pc = "collectionAttrName"
          /\ ~collectionAttrNameRejected
          /\ calls = <<"normalizePkValues">>
          /\ query'.associatedIds = orig.associatedIds]_vars

\* `mom` is a singular association: the forge stopped before associatedIds,
\* which would not have passed either
C25_Witness ==
  /\ pc = "failed"
  /\ err = UsageError("E_INVALID_COLLECTION_ATTR_NAME")
  /\ query.collectionAttrName = Str("mom")
  /\ calls = <<"normalizePkValues">>
  /\ query.targetRecordIds = Arr(<<Str("a")>>)
  /\ query.associatedIds = True

\* the forge returned a query that populates, with a select that is no wildcard
forgedWithExplicitSelect ==
  /\ pc = "done"
  /\ query.method.v \in {"find", "findOne", "stream"}
  /\ query.criteria.select.v # <<>>
  /\ query.criteria.select.v[1] # "*"

\* C26: in a forged find, findOne or stream query whose select is no wildcard,
\* every key left in populates is in criteria.select; the select is the one
\* handed in followed by the populated attributes it lacked, each once, so an
\* attribute that was selected already is not appended again.
C26_PopulatedAreSelected ==
  forgedWithExplicitSelect =>
    LET before == orig.criteria.select.v
        after == query.criteria.select.v
        appended == SubSeq(after, Len(before) + 1, Len(after))
    IN /\ Range(dictKeys(query.populates)) \subseteq Range(after)
       /\ Len(after) >= Len(before)
       /\ SubSeq(after, 1, Len(before)) = before
       /\ Range(appended) = Range(dictKeys(query.populates)) \ Range(before)
       /\ Cardinality(Range(appended)) = Len(appended)

\* `mom` was selected and populated, `pets` populated only: pets was appended,
\* mom was not
C26_Witness ==
  /\ forgedWithExplicitSelect
  /\ orig.criteria.select = Arr(<<"id", "mom">>)
  /\ dictKeys(query.populates) = <<"mom", "pets">>
  /\ query.criteria.select = Arr(<<"id", "mom", "pets">>)

\* ---------------------------------------------------------------------------
\* C27: in production mode, for a plural association without optimized
\* populate, a warning is emitted precisely for the sub-criteria whose skip,
\* limit or sort differs from the default; a sort explicitly set to the
\* default gives no warning.

\* the forged sub-criteria of a plural association differ from the defaults
subcriteriaDiffersFromDefault(subcriteria) ==
  \/ subcriteria.skip # Num(0)
  \/ subcriteria.limit # MAX_SAFE_INTEGER
  \/ subcriteria.sort # Arr(<<CD("id", "ASC")>>)

\* the keys of the forged `populates` that hold sub-criteria of `pets`
forgedPluralKeys ==
  {k \in {"pets"} : dictHas(query.populates, k) /\ dictGet(query.populates, k).t = "dict"}

C27_WarnsExactlyOnNonDefault ==
  (pc = "done" /\ production /\ query.using.v = "user"
     /\ query.populates.t = "dict") =>
    \A k \in forgedPluralKeys :
      (k \in warned) <=> subcriteriaDiffersFromDefault(dictGet(query.populates, k))

\* ---------------------------------------------------------------------------
\* C28: every call of integrate() calls the callback exactly once before it
\* returns: with an error alone when the validation fails, or with
\* (null, results) once every alias group has been populated; never twice and
\* never not at all.
C28_CallbackExactlyOnce ==
  /\ cbCalls <= 1
  /\ cbCalls = 1 <=> ipc = "ended"
  /\ ipc = "ended" =>
       \/ outcome = "error" /\ gi = 0 /\ invalid(cache0, joinInstructions)
       \/ outcome = "results" /\ gi = Len(groups) + 1

\* ---------------------------------------------------------------------------
\* the order of the checks C29 names
C29_Order ==
  <<"meta", "using", "method", "keys", "criteria", "populates", "numericAttrName",
    "iteratee", "newRecord", "newRecords", "valuesToSet", "targetRecordIds",
    "collectionAttrName", "associatedIds">>

\* the place of the forge in that order
C29_position(p) ==
  LET q == IF p = "populateEach" THEN "populates" ELSE p
  IN CHOOSE i \in 1..Len(C29_Order) : C29_Order[i] = q

\* the query keys the i-th check is about
C29_keysOf(i) ==
  IF C29_Order[i] = "iteratee" THEN {"eachRecordFn", "eachBatchFn"}
  ELSE IF i <= 4 THEN {}
  ELSE {C29_Order[i]}

\* the usage codes of the i-th check
C29_codesOf(i) ==
  CASE C29_Order[i] = "meta" -> {"E_INVALID_META"}
    [] C29_Order[i] = "criteria" -> {"E_INVALID_CRITERIA"}
    [] C29_Order[i] = "populates" -> {"E_INVALID_POPULATES"}
    [] C29_Order[i] = "numericAttrName" -> {"E_INVALID_NUMERIC_ATTR_NAME"}
    [] C29_Order[i] = "iteratee" -> {"E_INVALID_STREAM_ITERATEE"}
    [] C29_Order[i] = "newRecord" -> {"E_INVALID_NEW_RECORD"}
    [] C29_Order[i] = "newRecords" -> {"E_INVALID_NEW_RECORDS"}
    [] C29_Order[i] = "valuesToSet" -> {"E_INVALID_VALUES_TO_SET"}
    [] C29_Order[i] = "targetRecordIds" -> {"E_INVALID_TARGET_RECORD_IDS"}
    [] C29_Order[i] = "collectionAttrName" -> {"E_INVALID_COLLECTION_ATTR_NAME"}
    [] C29_Order[i] = "associatedIds" -> {"E_INVALID_ASSOCIATED_IDS"}
    [] OTHER -> {}

\* the check that follows the i-th one for the query: the next in the order,
\* and past the key check the next whose key is a key of the method
C29_next(i, q) ==
  IF i < 4 THEN C29_Order[i + 1]
  ELSE LET later == {j \in (i + 1)..Len(C29_Order) :
                       C29_keysOf(j) \cap queryKeys(q.method.v) # {}}
       IN IF later = {} THEN "done"
          ELSE C29_Order[CHOOSE j \in later : \A h \in later : j <= h]

\* C29: the checks run in the order meta, using, method, extraneous keys,
\* criteria, populates, numericAttrName, eachRecordFn/eachBatchFn, newRecord,
\* newRecords, valuesToSet, targetRecordIds, collectionAttrName, associatedIds:
\* every step of the forge either fails or goes on to the next check of this
\* order that applies (the populates check going through its keys first), so
\* that a failure is that of the earliest invalid key: a usage error carries
\* the code of the check that was running, and every key later in the order
\* is as it was handed in.
C29_FixedOrderFirstFailure ==
  [][LET i == C29_position(pc)
     IN /\ pc' \in {"failed", C29_next(i, query)}
                   \cup (IF pc \in {"populates", "populateEach"}
                         THEN {"populateEach"} ELSE {})
        /\ pc' = "failed" =>
             /\ err'.kind = "usage" => err'.code \in C29_codesOf(i)
             /\ \A j \in (i + 1)..Len(C29_Order) :
                  \A k \in C29_keysOf(j) : query'[k] = orig[k]]_vars

\* a query whose targetRecordIds, collectionAttrName and associatedIds are all
\* invalid failed on targetRecordIds, the other two untouched
C29_Witness ==
  /\ pc = "failed"
  /\ orig.method = Str("addToCollection")
  /\ orig.targetRecordIds = True
  /\ orig.collectionAttrName = Str("ghost")
  /\ orig.associatedIds = True
  /\ err = UsageError("E_INVALID_TARGET_RECORD_IDS")
  /\ query.collectionAttrName = orig.collectionAttrName
  /\ query.associatedIds = orig.associatedIds

\* ---------------------------------------------------------------------------
\* the aliases of the groups of three or more join instructions
C30_largeGroupAliases ==
  {groups[g].alias : g \in {h \in 1..Len(groups) : Len(groups[h].instructions) >= 3}}

\* C30: integrate() handles an alias only when its group holds one or two join
\* instructions: when the loop comes to a group of three or more, that turn
\* computes no join and leaves every table of the cache as it is, no error is
\* reported and the loop goes on; and when the loop ends, the callback is
\* called once with (null, results) and no row of the results has a key of
\* such an alias.
C30_LargeGroupsSkipped ==
  [][/\ (ipc = "each" /\ gi <= Len(groups) /\ groups[gi].alias \in C30_largeGroupAliases)
        => (/\ cache' = cache
            /\ ipc' = "each"
            /\ gi' = gi + 1
            /\ outcome' = "none"
            /\ cbCalls' = 0)
     /\ (ipc = "each" /\ ipc' = "ended")
        => (/\ outcome' = "results"
            /\ cbCalls' = 1
            /\ \A i \in 1..Len(cache'.tables[results'].v) :
                 DOMAIN cache'.tables[results'].v[i] \cap C30_largeGroupAliases = {})]_vars

\* integrate() ended with the results for an alias of three instructions and
\* an alias of one: the users have their `cats` and no `pets`
C30_Witness ==
  /\ outcome = "results"
  /\ cbCalls = 1
  /\ joinInstructions = Arr(ThreeAndOne)
  /\ Len(cache.tables["user"].v) = 2
  /\ \A i \in 1..2 : DOMAIN cache.tables["user"].v[i] = {"id", "cats"}
  /\ \E i \in 1..2 : cache.tables["user"].v[i].cats # <<>>

====
